---- MODULE Spec2Model ----
(***************************************************************************)
(* A model of the JSON:API client of src/src/json-api.ts (useJsonApi: the  *)
(* record factory, the graph builder, the serializer and the six public    *)
(* operations) and of its HTTP transport, src/src/json-api-fetcher.ts.     *)
(*                                                                         *)
(* JavaScript values are modelled by records of one shape, objects by      *)
(* functions from their own keys to values, and the records handed to the  *)
(* caller by a heap of objects, so that "the same object" is "the same     *)
(* address".                                                               *)
(***************************************************************************)
EXTENDS Integers, Sequences, FiniteSets, TLC

VARIABLES
  modelDefinitions,        \* useJsonApi: the configured model types
  relationshipDefinitions, \* useJsonApi: type -> relationship name -> definition
  kebabCase,               \* config.kebabCase
  heap,                    \* the record objects; an address is an index
  uuid,                    \* how many ids crypto.randomUUID() has handed out
  calls,                   \* the invocations of the public operations
  sent,                    \* the transport calls made so far, in order
  wire,                    \* the document the server answers with
  http                     \* the requests of JsonApiFetcherImpl

vars == <<modelDefinitions, relationshipDefinitions, kebabCase, heap, uuid, calls, sent, wire, http>>

-----------------------------------------------------------------------------
(* JavaScript values *)

Undef == [kind |-> "undefined", s |-> "", n |-> 0, refs |-> <<>>]

Null == [kind |-> "null", s |-> "", n |-> 0, refs |-> <<>>]

Str(x) == [kind |-> "string", s |-> x, n |-> 0, refs |-> <<>>]

\* the k-th value returned by crypto.randomUUID(): a string unlike any other
Uuid(k) == [kind |-> "string", s |-> "uuid", n |-> k, refs |-> <<>>]

\* a reference to the record object at address a
Ref(a) == [kind |-> "record", s |-> "", n |-> 0, refs |-> <<a>>]

\* an array of references to record objects
Refs(q) == [kind |-> "array", s |-> "", n |-> 0, refs |-> q]

\* JavaScript truthiness, as used by `if (entity.lid)` and `.filter(Boolean)`
Truthy(v) == v.kind \in {"record", "array"} \/ (v.kind = "string" /\ (v.s # "" \/ v.n # 0))

\* `x ?? y` takes y when x is null or undefined
Nullish(v) == v.kind \in {"undefined", "null"}

EmptyObject == [k \in {} |-> Undef]

\* reading a property: a key the object does not own reads as undefined
Get(o, k) == IF k \in DOMAIN o THEN o[k] ELSE Undef

\* { ...base, ...props }: later keys override earlier ones
Spread(base, props) ==
  [k \in (DOMAIN base) \cup (DOMAIN props) |-> IF k \in DOMAIN props THEN props[k] ELSE base[k]]

\* obj[key] = value
SetKey(o, key, value) == [k \in (DOMAIN o) \cup {key} |-> IF k = key THEN value ELSE o[k]]

-----------------------------------------------------------------------------
(* Errors: the message's fixed text, and the value interpolated into it *)

NoErr == [e |-> "", arg |-> ""]

Err(e, arg) == [e |-> e, arg |-> arg]

\* reading a property of undefined or null, calling .map on a non-array
TypeError == Err("TypeError", "")

-----------------------------------------------------------------------------
(* Configuration *)

HasMany == 0

BelongsTo == 1

\* the model definitions of the tests' store, and a model without relationships
ConfigModelDefinitions ==
  <<[type |-> "people", hasRelationships |-> TRUE,
     relationships |-> [comments |-> [type |-> "comments", relationshipType |-> HasMany]]],
    [type |-> "comments", hasRelationships |-> TRUE,
     relationships |-> [author |-> [type |-> "people", relationshipType |-> BelongsTo]]],
    [type |-> "articles", hasRelationships |-> TRUE,
     relationships |-> [author |-> [type |-> "people", relationshipType |-> BelongsTo],
                        comments |-> [type |-> "comments", relationshipType |-> HasMany]]],
    [type |-> "tags", hasRelationships |-> FALSE, relationships |-> EmptyObject]>>

\* useJsonApi: the two maps filled from config.modelDefinitions
useJsonApiModels(defs) == {defs[i].type : i \in 1..Len(defs)}

useJsonApiRelationships(defs) ==
  [t \in {defs[i].type : i \in {j \in 1..Len(defs) : defs[j].hasRelationships}} |->
     (CHOOSE d \in {defs[i] : i \in 1..Len(defs)} : d.type = t /\ d.hasRelationships).relationships]

\* camel of util.ts on the keys the model uses: the segments after the first
\* hyphen are capitalized and joined
camel(str) ==
  CASE str = "first-name" -> "firstName"
    [] str = "last-name" -> "lastName"
    [] str = "best-friend" -> "bestFriend"
    [] OTHER -> str

\* normalize that does not look at config.kebabCase
normalizeAlways(str) == camel(str)

normalize(str) == IF kebabCase THEN camel(str) ELSE str

-----------------------------------------------------------------------------
(* createRecord *)

\* what a call that can throw gives: an error, or a value; `used` counts the
\* ids taken from crypto.randomUUID()
Throw(err) == [err |-> err, val |-> EmptyObject, used |-> 0]

Return(val, used) == [err |-> NoErr, val |-> val, used |-> used]

\* a list built so far, and what the next element's computation gave
Collect(out, next) == IF next.err # NoErr THEN Throw(next.err) ELSE Return(Append(out.val, next.val), 0)

\* the keys createRecord copies in kebabCase mode
NormalizedKeys(properties) == {k \in DOMAIN properties : k # "id" /\ properties[k] # Undef}

createRecord(type, properties, fresh) ==
  IF type \notin modelDefinitions THEN Throw(Err("Model type not defined", type))
  ELSE
    LET given == Get(properties, "id")
        id == IF Nullish(given) THEN fresh ELSE given
        used == IF Nullish(given) THEN 1 ELSE 0
        base == [k \in {"id", "type"} |-> IF k = "id" THEN id ELSE Str(type)]
        keys == NormalizedKeys(properties)
        normalizedRecord ==
          [n \in {"id", "type"} \cup {normalize(k) : k \in keys} |->
             IF \E k \in keys : normalize(k) = n
             THEN properties[CHOOSE k \in keys : normalize(k) = n]
             ELSE base[n]]
    IN IF kebabCase THEN Return(normalizedRecord, used)
       ELSE Return(Spread(base, properties), used)

-----------------------------------------------------------------------------
(* Wire format.  A resource identifier is [type, id, lid]; a relationship  *)
(* entry is [name, data, rids] with data one of "absent" (links only),     *)
(* "null", "one" (rids holds the identifier) and "many" (rids is the       *)
(* array); a resource is [js, type, id, lid, attributes, hasRelationships, *)
(* relationships], `relationships` being the entries in key order.  js     *)
(* tells what JavaScript value stands where a resource object is expected: *)
(* "object", or "undefined", "null", "array" when a document's data is     *)
(* absent, null or an array.                                                *)

Rid(type, id) == [type |-> type, id |-> id, lid |-> Undef]

Lid(type, lid) == [type |-> type, id |-> Undef, lid |-> lid]

Linkage(name, rids) == [name |-> name, data |-> "many", rids |-> rids]

LinkageOne(name, rid) == [name |-> name, data |-> "one", rids |-> <<rid>>]

LinkageNull(name) == [name |-> name, data |-> "null", rids |-> <<>>]

LinksOnly(name) == [name |-> name, data |-> "absent", rids |-> <<>>]

Resource(type, id, attributes) ==
  [js |-> "object", type |-> type, id |-> id, lid |-> Undef, attributes |-> attributes,
   hasRelationships |-> FALSE, relationships |-> <<>>]

WithRelationships(resource, entries) ==
  [resource EXCEPT !.hasRelationships = TRUE, !.relationships = entries]

NotAResource(js) == [Resource("undefined", Undef, EmptyObject) EXCEPT !.js = js]

-----------------------------------------------------------------------------
(* resourcesToRecords *)

\* resourceToRecord that does not pass resource.id on
resourceToRecordFreshId(resource, fresh) ==
  IF resource.js \in {"undefined", "null"} THEN Throw(TypeError)
  ELSE IF resource.js = "array" THEN createRecord("undefined", EmptyObject, fresh)
  ELSE createRecord(resource.type, resource.attributes, fresh)

\* createRecord(resource.type, { id: resource.id, ...resource.attributes })
resourceToRecord(resource, fresh) ==
  IF resource.js \in {"undefined", "null"} THEN Throw(TypeError)
  ELSE IF resource.js = "array" THEN createRecord("undefined", [id |-> Undef], fresh)
  ELSE createRecord(resource.type, Spread([id |-> resource.id], resource.attributes), fresh)

\* the two-level map type -> id -> record, as a map from the pair
KeyOfIdAlone(type, id) == <<Undef, id>>

KeyOf(type, id) == <<type, id>>

MapKey(record) == KeyOf(Get(record, "type"), Get(record, "id"))

setRecord(map, record, address) == SetKey(map, MapKey(record), address)

\* the address found, 0 for undefined
getRecord(map, rid) ==
  IF rid.id = Undef THEN Throw(Err("Resource identifier must have an id", ""))
  ELSE Return(IF KeyOf(Str(rid.type), rid.id) \in DOMAIN map THEN map[KeyOf(Str(rid.type), rid.id)] ELSE 0, 0)

\* a pass over resources: st is [heap, uuid, err, out, map]
RECURSIVE Materialize(_, _, _)
Materialize(resources, i, st) ==
  IF i > Len(resources) \/ st.err # NoErr THEN st
  ELSE
    LET made == resourceToRecord(resources[i], Uuid(st.uuid + 1))
        address == Len(st.heap) + 1
    IN IF made.err # NoErr THEN [st EXCEPT !.err = made.err]
       ELSE Materialize(resources, i + 1,
              [st EXCEPT !.heap = Append(@, made.val),
                         !.uuid = @ + made.used,
                         !.out = Append(@, address)])

\* an identifier map that belongs to the instance: it holds every record
\* there is, those of earlier calls and the caller's too
RECURSIVE IndexShared(_, _, _, _)
IndexShared(h, addresses, i, map) ==
  IF i > Len(h) THEN map
  ELSE IndexShared(h, addresses, i + 1, setRecord(map, h[i], i))

\* for (const record of records) setRecord(map, record)
RECURSIVE Index(_, _, _, _)
Index(h, addresses, i, map) ==
  IF i > Len(addresses) THEN map
  ELSE Index(h, addresses, i + 1, setRecord(map, h[addresses[i]], addresses[i]))

\* a filter that lets identifiers of every type through
FilterNone(rids, type) == rids

\* rids.filter((d) => d && d.type === rel.type)
RECURSIVE FilterType(_, _)
FilterType(rids, type) ==
  IF rids = <<>> THEN <<>>
  ELSE IF Head(rids).type = type THEN <<Head(rids)>> \o FilterType(Tail(rids), type)
  ELSE FilterType(Tail(rids), type)

\* Resolve that looks in recordsMap before includedMap
RECURSIVE ResolveRecordsFirst(_, _, _)
ResolveRecordsFirst(rids, includedMap, recordsMap) ==
  IF rids = <<>> THEN Return(<<>>, 0)
  ELSE
    LET first == getRecord(recordsMap, Head(rids))
        second == getRecord(includedMap, Head(rids))
        found == IF first.val # 0 THEN first.val ELSE second.val
        rest == ResolveRecordsFirst(Tail(rids), includedMap, recordsMap)
    IN IF first.err # NoErr THEN Throw(first.err)
       ELSE IF rest.err # NoErr THEN Throw(rest.err)
       ELSE Return(IF found # 0 THEN <<found>> \o rest.val ELSE rest.val, 0)

\* .map((d) => getRecord(includedMap, d) || getRecord(recordsMap, d)).filter(Boolean)
RECURSIVE Resolve(_, _, _)
Resolve(rids, includedMap, recordsMap) ==
  IF rids = <<>> THEN Return(<<>>, 0)
  ELSE
    LET first == getRecord(includedMap, Head(rids))
        second == getRecord(recordsMap, Head(rids))
        found == IF first.val # 0 THEN first.val ELSE second.val
        rest == Resolve(Tail(rids), includedMap, recordsMap)
    IN IF first.err # NoErr THEN Throw(first.err)
       ELSE IF rest.err # NoErr THEN Throw(rest.err)
       ELSE Return(IF found # 0 THEN <<found>> \o rest.val ELSE rest.val, 0)

\* PopulateEntry whose `if (!reldoc.data) continue` lets an entry without a
\* data key through: it is assigned like an empty linkage
PopulateEntryNoSkip(h, address, rels, entry, includedMap, recordsMap) ==
  LET normalizedName == normalize(entry.name)
      rel == rels[normalizedName]
      rids == IF rel.relationshipType = HasMany THEN entry.rids ELSE
              IF entry.data = "one" THEN entry.rids ELSE <<>>
      relatedRecords == Resolve(FilterType(rids, rel.type), includedMap, recordsMap)
      value == IF rel.relationshipType = HasMany THEN Refs(relatedRecords.val)
               ELSE IF relatedRecords.val = <<>> THEN Undef
               ELSE Ref(relatedRecords.val[1])
  IN IF normalizedName \notin DOMAIN rels THEN Return(h, 0)
     ELSE IF entry.data = "null" THEN Return(h, 0)
     ELSE IF rel.relationshipType = HasMany /\ entry.data = "one" THEN Throw(TypeError)
     ELSE IF relatedRecords.err # NoErr THEN Throw(relatedRecords.err)
     ELSE Return([h EXCEPT ![address] = SetKey(@, normalizedName, value)], 0)

\* PopulateEntry that throws on a relationship key without a definition
PopulateEntryStrict(h, address, rels, entry, includedMap, recordsMap) ==
  LET normalizedName == normalize(entry.name)
      rel == rels[normalizedName]
      rids == IF rel.relationshipType = HasMany THEN entry.rids ELSE
              IF entry.data = "one" THEN entry.rids ELSE <<>>
      relatedRecords == Resolve(FilterType(rids, rel.type), includedMap, recordsMap)
      value == IF rel.relationshipType = HasMany THEN Refs(relatedRecords.val)
               ELSE IF relatedRecords.val = <<>> THEN Undef
               ELSE Ref(relatedRecords.val[1])
  IN IF normalizedName \notin DOMAIN rels THEN Throw(Err("Relationship not defined", entry.name))
     ELSE IF entry.data \in {"absent", "null"} THEN Return(h, 0)
     ELSE IF rel.relationshipType = HasMany /\ entry.data = "one" THEN Throw(TypeError)
     ELSE IF relatedRecords.err # NoErr THEN Throw(relatedRecords.err)
     ELSE Return([h EXCEPT ![address] = SetKey(@, normalizedName, value)], 0)

\* the body of the loop over Object.entries(resource.relationships): h is the
\* heap, changed by setRelationship
PopulateEntry(h, address, rels, entry, includedMap, recordsMap) ==
  LET normalizedName == normalize(entry.name)
      rel == rels[normalizedName]
      rids == IF rel.relationshipType = HasMany THEN entry.rids ELSE
              IF entry.data = "one" THEN entry.rids ELSE <<>>
      relatedRecords == Resolve(FilterType(rids, rel.type), includedMap, recordsMap)
      value == IF rel.relationshipType = HasMany THEN Refs(relatedRecords.val)
               ELSE IF relatedRecords.val = <<>> THEN Undef
               ELSE Ref(relatedRecords.val[1])
  IN IF normalizedName \notin DOMAIN rels THEN Return(h, 0)
     ELSE IF entry.data \in {"absent", "null"} THEN Return(h, 0)
     ELSE IF rel.relationshipType = HasMany /\ entry.data = "one" THEN Throw(TypeError)
     ELSE IF relatedRecords.err # NoErr THEN Throw(relatedRecords.err)
     ELSE Return([h EXCEPT ![address] = SetKey(@, normalizedName, value)], 0)

RECURSIVE PopulateEntries(_, _, _, _, _, _, _)
PopulateEntries(h, address, rels, entries, i, includedMap, recordsMap) ==
  IF i > Len(entries) THEN Return(h, 0)
  ELSE
    LET step == PopulateEntry(h, address, rels, entries[i], includedMap, recordsMap)
    IN IF step.err # NoErr THEN step
       ELSE PopulateEntries(step.val, address, rels, entries, i + 1, includedMap, recordsMap)

populateRelationships(h, resource, includedMap, recordsMap) ==
  LET top == getRecord(recordsMap, resource)
      inc == getRecord(includedMap, resource)
      record == IF top.val # 0 THEN top.val ELSE inc.val
  IN IF top.err # NoErr THEN Throw(top.err)
     ELSE IF record = 0 THEN Throw(Err("Unexpected not found record", ""))
     ELSE IF ~resource.hasRelationships THEN Return(h, 0)
     ELSE IF resource.type \notin DOMAIN relationshipDefinitions THEN Return(h, 0)
     ELSE PopulateEntries(h, record, relationshipDefinitions[resource.type],
                          resource.relationships, 1, includedMap, recordsMap)

\* for (const r of resources) populateRelationships(r)
RECURSIVE PopulateAll(_, _, _, _, _)
PopulateAll(h, resources, i, includedMap, recordsMap) ==
  IF i > Len(resources) THEN Return(h, 0)
  ELSE
    LET step == populateRelationships(h, resources[i], includedMap, recordsMap)
    IN IF step.err # NoErr THEN step
       ELSE PopulateAll(step.val, resources, i + 1, includedMap, recordsMap)

\* what resourcesToRecords gives: [err, heap, uuid, records].  When it throws,
\* the objects made so far are unreachable, and heap and uuid are given back
\* as they were.
Failed(h, u, err) == [err |-> err, heap |-> h, uuid |-> u, records |-> <<>>]

Built(h, u, records) == [err |-> NoErr, heap |-> h, uuid |-> u, records |-> records]

\* `return records` after pass 2, whose outcome is `linked`
ReturnRecords(h, u, top, linked) ==
  IF linked.err # NoErr THEN Failed(h, u, linked.err)
  ELSE Built(linked.val, top.uuid, top.out)

\* from `const records = resources.map(resourceToRecord)` on: `top` is that
\* map's outcome; the two loops of pass 2 are one loop over resources, then
\* included
FromRecords(h, u, isArray, resources, hasIncluded, included, includedMap, top) ==
  IF ~isArray THEN Failed(h, u, TypeError)
  ELSE IF top.err # NoErr THEN Failed(h, u, top.err)
  ELSE IF ~hasIncluded THEN Built(top.heap, top.uuid, top.out)
  ELSE ReturnRecords(h, u, top,
         PopulateAll(top.heap, resources \o included, 1, includedMap,
                     Index(top.heap, top.out, 1, EmptyObject)))

\* from `const includedMap` on: `inc` is the outcome of the loop over included
FromIncluded(h, u, isArray, resources, hasIncluded, included, inc) ==
  IF inc.err # NoErr THEN Failed(h, u, inc.err)
  ELSE FromRecords(h, u, isArray, resources, hasIncluded, included,
                   Index(inc.heap, inc.out, 1, EmptyObject),
                   Materialize(resources, 1, [inc EXCEPT !.out = <<>>]))

Start(h, u) == [heap |-> h, uuid |-> u, err |-> NoErr, out |-> <<>>]

\* `resources` is a sequence, or not an array at all (isArray false), on
\* which .map is a TypeError; `included` is absent or a sequence
resourcesToRecords(h, u, isArray, resources, hasIncluded, included) ==
  FromIncluded(h, u, isArray, resources, hasIncluded, included,
               IF hasIncluded THEN Materialize(included, 1, Start(h, u)) ELSE Start(h, u))

-----------------------------------------------------------------------------
(* Documents, the transport's answers, and the invocations *)

\* a document: data is "absent", "null", "one" (resources holds it) or "many"
Document(data, resources, hasIncluded, included) ==
  [data |-> data, resources |-> resources, hasIncluded |-> hasIncluded, included |-> included]

\* [resource] of findRecord and saveRecord: whatever doc.data is, in an array
DataAsOne(doc) ==
  CASE doc.data = "one" -> doc.resources
    [] doc.data = "many" -> <<NotAResource("array")>>
    [] doc.data = "null" -> <<NotAResource("null")>>
    [] OTHER -> <<NotAResource("undefined")>>

\* the failure of a transport call, whatever the transport makes of it
TransportError == Err("Transport error", "")

Pending == [st |-> "pending", err |-> NoErr, defined |-> FALSE, records |-> <<>>]

\* resolved with a value built of these records (a record, or { doc, records })
Resolved(records) == [st |-> "resolved", err |-> NoErr, defined |-> TRUE, records |-> records]

ResolvedUndefined == [st |-> "resolved", err |-> NoErr, defined |-> FALSE, records |-> <<>>]

Rejected(err) == [st |-> "rejected", err |-> err, defined |-> FALSE, records |-> <<>>]

\* an invocation: its arguments, the place in `sent` of its transport call
\* (0: none made), what the transport answered ("none" yet, "document",
\* "echo", "absent", "error"), the size of the heap and the id counter when
\* its continuation ran, and its result
Frame(op) ==
  [op |-> op, type |-> "", id |-> "", record |-> 0, name |-> "", operations |-> <<>>,
   properties |-> EmptyObject, request |-> 0, response |-> "none", document |-> Document("absent", <<>>, FALSE, <<>>), base |-> 0,
   ids |-> 0, result |-> Pending]

\* a transport call: the method, its arguments, the resources in its body
\* and, for an atomic document, the `op` of each operation
Request(method, type, id, name, body) ==
  [method |-> method, type |-> type, id |-> id, name |-> name, body |-> body, ops |-> <<>>]

Awaiting(c, op) == c \in 1..Len(calls) /\ calls[c].op = op /\ calls[c].result.st = "pending"

\* the call's promise settles with `result`; `h` and `u` are the heap and the
\* id counter it leaves
Settle(c, response, document, result, h, u) ==
  /\ calls' = [calls EXCEPT ![c].response = response, ![c].document = document,
                            ![c].base = Len(heap), ![c].ids = uuid, ![c].result = result]
  /\ heap' = h
  /\ uuid' = u
  /\ UNCHANGED <<modelDefinitions, relationshipDefinitions, kebabCase, sent, wire, http>>

\* the call throws before its first await: no transport call, no record
Fail(frame, err) ==
  /\ calls' = Append(calls, [frame EXCEPT !.result = Rejected(err), !.base = Len(heap), !.ids = uuid])
  /\ UNCHANGED <<modelDefinitions, relationshipDefinitions, kebabCase, heap, uuid, sent, wire, http>>

\* the call starts and suspends at its transport call
Suspend(frame, request) ==
  /\ calls' = Append(calls, [frame EXCEPT !.request = Len(sent) + 1])
  /\ sent' = Append(sent, request)
  /\ UNCHANGED <<modelDefinitions, relationshipDefinitions, kebabCase, heap, uuid, wire, http>>

-----------------------------------------------------------------------------
(* findAll and findRecord *)

MaxCalls == 1

ArgTypes == {"articles", "people"}

ArgIds == {"1", "9999"}

findAll(h, u, doc) ==
  resourcesToRecords(h, u, doc.data = "many", doc.resources, doc.hasIncluded, doc.included)

\* records[0], or the not-found error
FirstRecord(id, built) ==
  IF built.err # NoErr THEN built
  ELSE IF built.records = <<>> THEN [built EXCEPT !.err = Err("Record not found", id)]
  ELSE [built EXCEPT !.records = <<built.records[1]>>]

findRecord(h, u, id, doc) ==
  FirstRecord(id, resourcesToRecords(h, u, TRUE, DataAsOne(doc), doc.hasIncluded, doc.included))

FindAllCall ==
  \E type \in ArgTypes :
    /\ Len(calls) < MaxCalls
    /\ Suspend([Frame("findAll") EXCEPT !.type = type],
               Request("fetchDocument", type, "", "", <<>>))

FindRecordCall ==
  \E type \in ArgTypes, id \in ArgIds :
    /\ Len(calls) < MaxCalls
    /\ Suspend([Frame("findRecord") EXCEPT !.type = type, !.id = id],
               Request("fetchDocument", type, id, "", <<>>))

\* the call returns, or throws, what decoding `document` gave
SettleBuilt(c, response, document, built) ==
  Settle(c, response, document,
         IF built.err # NoErr THEN Rejected(built.err) ELSE Resolved(built.records),
         built.heap, built.uuid)

\* the continuation after `await _fetcher.fetchDocument(...)`
FindAllResume ==
  \E c \in 1..Len(calls) :
    /\ Awaiting(c, "findAll")
    /\ \/ Settle(c, "error", calls[c].document, Rejected(TransportError), heap, uuid)
       \/ SettleBuilt(c, "document", wire, findAll(heap, uuid, wire))

FindRecordResume ==
  \E c \in 1..Len(calls) :
    /\ Awaiting(c, "findRecord")
    /\ \/ Settle(c, "error", calls[c].document, Rejected(TransportError), heap, uuid)
       \/ SettleBuilt(c, "document", wire, findRecord(heap, uuid, calls[c].id, wire))

-----------------------------------------------------------------------------
(* The documents of the graph-building checks *)

MaxData == 2

MaxIncluded == 2

SeqsUpTo(S, n) == UNION {[1..k -> S] : k \in 0..n}

Title == [title |-> Str("T")]

PersonA ==
  WithRelationships(Resource("people", Str("1"), [firstName |-> Str("Dan")]),
                    <<Linkage("comments", <<Rid("comments", Str("1"))>>)>>)

CommentC ==
  WithRelationships(Resource("comments", Str("1"), [body |-> Str("First!")]),
                    <<LinkageOne("author", Rid("people", Str("1")))>>)

Article1 ==
  WithRelationships(Resource("articles", Str("1"), Title),
                    <<LinkageOne("author", Rid("people", Str("1"))),
                      Linkage("comments", <<Rid("comments", Str("1"))>>)>>)

\* an article whose author relationship carries links only
Article2 ==
  WithRelationships(Resource("articles", Str("2"), Title),
                    <<LinksOnly("author"), Linkage("comments", <<Rid("comments", Str("1"))>>)>>)

Unknown == Resource("bogus", Str("1"), Title)

GraphPool == {PersonA, CommentC, Article1, Article2, Unknown}

\* no resource object twice in data, none twice in included (a resource may
\* be both top-level and included)
Distinct(q) == \A i, j \in 1..Len(q) : q[i] = q[j] => i = j

Lists(S, n) == {q \in SeqsUpTo(S, n) : Distinct(q)}

\* the documents over a pool of resources: data an array, one resource,
\* null or absent; included absent or an array
DocumentsOver(pool) ==
  {Document("many", d, FALSE, <<>>) : d \in Lists(pool, MaxData)}
  \cup {Document("many", d, TRUE, i) : d \in Lists(pool, MaxData), i \in Lists(pool, MaxIncluded)}
  \cup {Document("one", <<r>>, FALSE, <<>>) : r \in pool}
  \cup {Document("one", <<r>>, TRUE, i) : r \in pool, i \in Lists(pool, MaxIncluded)}
  \cup {Document(k, <<>>, FALSE, <<>>) : k \in {"absent", "null"}}
  \cup {Document(k, <<>>, TRUE, i) : k \in {"absent", "null"}, i \in Lists(pool, MaxIncluded)}

GraphDocs == DocumentsOver(GraphPool)

InitWith(docs, heaps) ==
  /\ modelDefinitions = useJsonApiModels(ConfigModelDefinitions)
  /\ relationshipDefinitions = useJsonApiRelationships(ConfigModelDefinitions)
  /\ kebabCase \in BOOLEAN
  /\ heap \in heaps
  /\ uuid = 0
  /\ calls = <<>>
  /\ sent = <<>>
  /\ wire \in docs
  /\ http = <<>>

InitGraph == InitWith(GraphDocs, {<<>>})

NextGraph == FindAllCall \/ FindAllResume \/ FindRecordCall \/ FindRecordResume

SpecGraph == InitGraph /\ [][NextGraph]_vars

-----------------------------------------------------------------------------
(* serialize *)

\* entity.type as a key of the definition maps and as a wire type
TypeOf(entity) == IF Get(entity, "type").kind = "string" THEN Get(entity, "type").s ELSE "undefined"

\* serializeRid with the two tests in the other order: id before lid
serializeRidIdFirst(entity) ==
  [type |-> TypeOf(entity),
   id |-> IF Truthy(Get(entity, "id")) THEN Get(entity, "id") ELSE Undef,
   lid |-> IF ~Truthy(Get(entity, "id")) /\ Truthy(Get(entity, "lid")) THEN Get(entity, "lid") ELSE Undef]

serializeRid(entity) ==
  [type |-> TypeOf(entity),
   lid |-> IF Truthy(Get(entity, "lid")) THEN Get(entity, "lid") ELSE Undef,
   id |-> IF ~Truthy(Get(entity, "lid")) /\ Truthy(Get(entity, "id")) THEN Get(entity, "id") ELSE Undef]

\* serializeRid of a value that is no record object: a string or an array
\* has no type, lid or id
NoIdentity == [type |-> "undefined", id |-> Undef, lid |-> Undef]

\* resource.relationships[key] for a declared key: entities.map(serializeRid)
\* is a TypeError on a value without .map, serializeRid(null) one on null
serializeRelationship(h, key, rel, value) ==
  IF rel.relationshipType = HasMany THEN
    IF value.kind # "array" THEN Throw(TypeError)
    ELSE Return(Linkage(key, [i \in 1..Len(value.refs) |-> serializeRid(h[value.refs[i]])]), 0)
  ELSE IF rel.relationshipType = BelongsTo THEN
    IF value.kind = "null" THEN Throw(TypeError)
    ELSE IF value.kind = "record" THEN Return(LinkageOne(key, serializeRid(h[value.refs[1]])), 0)
    ELSE Return(LinkageOne(key, NoIdentity), 0)
  ELSE Throw(Err("Unknown relationship type", key))

\* a loop that skips the reserved keys only
SerializedWithUndefined(record) == {k \in DOMAIN record : k \notin {"id", "lid", "type"}}

\* the loop's `continue`: the reserved keys and the undefined values
Serialized(record) == {k \in DOMAIN record : k \notin {"id", "lid", "type"} /\ record[k] # Undef}

\* the loop over Object.entries(record), for the keys that are declared
\* relationships; `out` is [err, val] with val the entries so far
RECURSIVE SerializeRelationships(_, _, _, _, _)
SerializeRelationships(h, record, relationships, keys, out) ==
  IF keys = {} \/ out.err # NoErr THEN out
  ELSE
    LET key == CHOOSE k \in keys : TRUE
    IN SerializeRelationships(h, record, relationships, keys \ {key},
         Collect(out, serializeRelationship(h, key, relationships[key], record[key])))

\* the resource serialize returns, its relationship entries being `entries`
SerializedResource(record, rid, relationships, hasRelationships, entries) ==
  IF entries.err # NoErr THEN Throw(entries.err)
  ELSE Return([js |-> "object", type |-> rid.type, id |-> rid.id, lid |-> rid.lid,
               attributes |-> [k \in {a \in Serialized(record) : a \notin DOMAIN relationships} |-> record[k]],
               hasRelationships |-> hasRelationships, relationships |-> entries.val], 0)

SerializeWith(h, record, relationships, hasRelationships) ==
  SerializedResource(record, serializeRid(record), relationships, hasRelationships,
    SerializeRelationships(h, record, relationships,
                           {k \in Serialized(record) : k \in DOMAIN relationships}, Return(<<>>, 0)))

\* serialize(record), `address` 0 standing for undefined: record.type is
\* then a TypeError
serialize(h, address) ==
  IF address = 0 THEN Throw(TypeError)
  ELSE IF TypeOf(h[address]) \in DOMAIN relationshipDefinitions
  THEN SerializeWith(h, h[address], relationshipDefinitions[TypeOf(h[address])], TRUE)
  ELSE SerializeWith(h, h[address], EmptyObject, FALSE)

-----------------------------------------------------------------------------
(* saveRecord and saveAtomic *)

MaxOperations == 2

\* saveRecord up to its await: serialize(record), then _fetcher.post(resource)
SaveRecordStart(frame, resource) ==
  IF resource.err # NoErr THEN Fail(frame, resource.err)
  ELSE Suspend(frame, Request("post", resource.val.type, "", "", <<resource.val>>))

SaveRecordCall ==
  \E a \in 1..Len(heap) :
    /\ Len(calls) < MaxCalls
    /\ SaveRecordStart([Frame("saveRecord") EXCEPT !.record = a], serialize(heap, a))

\* resourcesToRecords([doc.data]), without included; records[0] is its one record
saveRecord(h, u, doc) == resourcesToRecords(h, u, TRUE, DataAsOne(doc), FALSE, <<>>)

\* the document of a transport that answers a post with the resource posted,
\* and a postAtomic with one result for each operation
Echo(c) ==
  Document(IF calls[c].op = "saveRecord" THEN "one" ELSE "many", sent[calls[c].request].body, FALSE, <<>>)

\* the continuation after `await _fetcher.post(...)`
SaveRecordResume ==
  \E c \in 1..Len(calls) :
    /\ Awaiting(c, "saveRecord")
    /\ \/ Settle(c, "error", calls[c].document, Rejected(TransportError), heap, uuid)
       \/ SettleBuilt(c, "echo", Echo(c), saveRecord(heap, uuid, Echo(c)))
       \/ SettleBuilt(c, "document", wire, saveRecord(heap, uuid, wire))

\* a map that encodes the operations' records last to first
RECURSIVE SerializeAllReversed(_, _, _, _)
SerializeAllReversed(h, operations, i, out) ==
  IF i > Len(operations) \/ out.err # NoErr THEN out
  ELSE SerializeAllReversed(h, operations, i + 1,
         Collect(out, serialize(h, operations[Len(operations) + 1 - i].data)))

\* operations.map((op) => ({ op: op.op, data: serialize(op.data) }))
RECURSIVE SerializeAll(_, _, _, _)
SerializeAll(h, operations, i, out) ==
  IF i > Len(operations) \/ out.err # NoErr THEN out
  ELSE SerializeAll(h, operations, i + 1, Collect(out, serialize(h, operations[i].data)))

\* the atomic document { 'atomic:operations': atomicOperations }
AtomicRequest(operations, resources) ==
  [Request("postAtomic", "", "", "", resources)
     EXCEPT !.ops = [i \in 1..Len(operations) |-> operations[i].op]]

SaveAtomicStart(frame, resources) ==
  IF resources.err # NoErr THEN Fail(frame, resources.err)
  ELSE Suspend(frame, AtomicRequest(frame.operations, resources.val))

\* the operations a caller can pass: a record of the heap to add or to
\* update, or an operation that carries a ref and no data
Operations(h) ==
  {[op |-> o, data |-> a] : o \in {"add", "update"}, a \in 1..Len(h)} \cup {[op |-> "remove", data |-> 0]}

SaveAtomicCall ==
  \E operations \in SeqsUpTo(Operations(heap), MaxOperations) :
    /\ Len(calls) < MaxCalls
    /\ SaveAtomicStart([Frame("saveAtomic") EXCEPT !.operations = operations],
                       SerializeAll(heap, operations, 1, Return(<<>>, 0)))

\* an atomic document as a Document: data is "many" and resources the
\* results' data when it has 'atomic:results', data is "absent" when not
AtomicDocument(doc) ==
  IF doc.data = "many" THEN Document("many", doc.resources, FALSE, <<>>)
  ELSE Document("absent", <<>>, FALSE, <<>>)

\* doc['atomic:results'] ? resourcesToRecords(results.map((r) => r.data)) : []
saveAtomic(h, u, doc) ==
  IF doc.data = "many" THEN resourcesToRecords(h, u, TRUE, doc.resources, FALSE, <<>>)
  ELSE Built(h, u, <<>>)

\* saveAtomic that takes "no document" for a document without results
saveAtomicReturnEmpty(hasDoc, built) ==
  IF built.err # NoErr THEN Rejected(built.err) ELSE Resolved(built.records)

\* `if (!doc) return`, then `return { doc, records }`
saveAtomicReturn(hasDoc, built) ==
  IF ~hasDoc THEN ResolvedUndefined
  ELSE IF built.err # NoErr THEN Rejected(built.err)
  ELSE Resolved(built.records)

SettleAtomic(c, response, hasDoc, document, built) ==
  Settle(c, response, document, saveAtomicReturn(hasDoc, built), built.heap, built.uuid)

\* the continuation after `await _fetcher.postAtomic(...)`
SaveAtomicResume ==
  \E c \in 1..Len(calls) :
    /\ Awaiting(c, "saveAtomic")
    /\ \/ Settle(c, "error", calls[c].document, Rejected(TransportError), heap, uuid)
       \/ SettleAtomic(c, "absent", FALSE, calls[c].document, Built(heap, uuid, <<>>))
       \/ SettleAtomic(c, "echo", TRUE, Echo(c), saveAtomic(heap, uuid, Echo(c)))
       \/ SettleAtomic(c, "document", TRUE, AtomicDocument(wire),
                       saveAtomic(heap, uuid, AtomicDocument(wire)))

-----------------------------------------------------------------------------
(* The records a caller saves *)

AuthorLid ==
  [type |-> Str("people"), lid |-> Str("local-1"), firstName |-> Str("John"), lastName |-> Str("Doe")]

AuthorBoth == Spread(AuthorLid, [id |-> Str("9")])

AuthorId == [type |-> Str("people"), id |-> Str("9"), firstName |-> Str("John")]

\* a person with neither id nor lid
AuthorNone == [type |-> Str("people"), firstName |-> Str("John")]

\* a person whose id and lid are empty strings
AuthorEmpty == [type |-> Str("people"), id |-> Str(""), lid |-> Str(""), firstName |-> Str("John")]

NewArticle(author) == [type |-> Str("articles"), title |-> Str("test222"), author |-> Ref(author)]

NewComment == [type |-> Str("comments"), lid |-> Str("local-2"), body |-> Str("First!")]

Discussed(author, comments) ==
  [type |-> Str("articles"), id |-> Str("1"), title |-> Str("test222"),
   author |-> Ref(author), comments |-> Refs(comments)]

\* createRecord('articles', { title, author: null })
Orphan == [type |-> Str("articles"), title |-> Str("test222"), author |-> Null]

\* a record whose type is no configured model type
Stray == [type |-> Str("bogus"), title |-> Str("test222")]

\* a record with a hyphenated attribute key
Hyphenated == ("first-name" :> Str("Dan")) @@ [type |-> Str("people"), id |-> Str("9")]

Untitled == [type |-> Str("articles"), id |-> Str("3"), title |-> Undef]

Tag == [type |-> Str("tags"), id |-> Str("4"), label |-> Null]

\* an article with an undefined property next to its title and relationships
Draft(author) ==
  [type |-> Str("articles"), lid |-> Str("local-3"), title |-> Str("test222"), summary |-> Undef,
   author |-> Ref(author), comments |-> Refs(<<>>)]

SaveHeaps ==
  {<<AuthorLid, NewArticle(1)>>, <<AuthorBoth, NewArticle(1)>>, <<AuthorId, NewArticle(1)>>,
   <<AuthorNone, NewArticle(1)>>, <<AuthorEmpty, NewArticle(1)>>,
   <<AuthorLid, NewComment, Discussed(1, <<2>>)>>,
   <<Orphan, Stray, Hyphenated>>, <<Untitled, Tag>>, <<AuthorId, Draft(1)>>}

\* what a server answers a write with: the resource with its new id, results
\* (one of them without data), or a document with neither data nor results
SaveDocs ==
  {Document("one", <<Resource("articles", Str("10"), Title)>>, FALSE, <<>>),
   Document("many", <<Resource("articles", Str("10"), Title), PersonA>>, FALSE, <<>>),
   Document("many", <<NotAResource("undefined")>>, FALSE, <<>>),
   Document("absent", <<>>, FALSE, <<>>)}

InitSave == InitWith(SaveDocs, SaveHeaps)

NextSave == SaveRecordCall \/ SaveRecordResume \/ SaveAtomicCall \/ SaveAtomicResume

SpecSave == InitSave /\ [][NextSave]_vars

-----------------------------------------------------------------------------
(* findRelated *)

\* record.id in a URL
Text(v) == IF v.kind = "string" THEN v.s ELSE v.kind

RelationshipNames == {"author", "comments", "publisher"}

\* the call throws after a transport call was made for it
FailSent(frame, err, request) ==
  /\ calls' = Append(calls, [frame EXCEPT !.result = Rejected(err), !.base = Len(heap), !.ids = uuid,
                                          !.request = Len(sent) + 1])
  /\ sent' = Append(sent, request)
  /\ UNCHANGED <<modelDefinitions, relationshipDefinitions, kebabCase, heap, uuid, wire, http>>

\* findRelated that fetches before it looks the relationship up
FindRelatedStartLate(frame, type, id, name) ==
  IF type \notin DOMAIN relationshipDefinitions
  THEN FailSent(frame, Err("Model has no relationships", type), Request("fetchHasMany", type, id, name, <<>>))
  ELSE IF name \notin DOMAIN relationshipDefinitions[type]
  THEN FailSent(frame, Err("Relationship not defined", name), Request("fetchHasMany", type, id, name, <<>>))
  ELSE IF relationshipDefinitions[type][name].relationshipType = BelongsTo
  THEN Suspend(frame, Request("fetchBelongsTo", type, id, name, <<>>))
  ELSE Suspend(frame, Request("fetchHasMany", type, id, name, <<>>))

\* findRelated up to its await: the two lookups, then fetchBelongsTo or
\* fetchHasMany
FindRelatedStart(frame, type, id, name) ==
  IF type \notin DOMAIN relationshipDefinitions
  THEN Fail(frame, Err("Model has no relationships", type))
  ELSE IF name \notin DOMAIN relationshipDefinitions[type]
  THEN Fail(frame, Err("Relationship not defined", name))
  ELSE IF relationshipDefinitions[type][name].relationshipType = BelongsTo
  THEN Suspend(frame, Request("fetchBelongsTo", type, id, name, <<>>))
  ELSE Suspend(frame, Request("fetchHasMany", type, id, name, <<>>))

FindRelatedCall ==
  \E a \in 1..Len(heap), name \in RelationshipNames :
    /\ Len(calls) < MaxCalls
    /\ FindRelatedStart([Frame("findRelated") EXCEPT !.record = a, !.name = name],
                        TypeOf(heap[a]), Text(Get(heap[a], "id")), name)

\* createRecord(rel.type, { id: r.id, ...r.attributes }) is resourceToRecord
\* of r with rel.type for its type
Retyped(resources, type) == [i \in 1..Len(resources) |-> [resources[i] EXCEPT !.type = type]]

\* what findRelated makes records of: for a belongs-to doc.data, whatever it
\* is (an array has neither id nor attributes); for a has-many the elements
\* of doc.data
RelatedResources(rel, doc) ==
  IF rel.relationshipType = BelongsTo /\ doc.data = "many" THEN <<Resource(rel.type, Undef, EmptyObject)>>
  ELSE IF doc.data \in {"one", "many"} THEN Retyped(doc.resources, rel.type)
  ELSE <<NotAResource(IF doc.data = "null" THEN "null" ELSE "undefined")>>

\* SetRelated that leaves a property the record already has as it is
SetRelatedKeep(h, u, a, name, rel, made) ==
  IF made.err # NoErr THEN Failed(h, u, made.err)
  ELSE IF name \in DOMAIN h[a] THEN Built(made.heap, made.uuid, <<>>)
  ELSE Built([made.heap EXCEPT ![a] = SetKey(@, name, IF rel.relationshipType = HasMany
                                                        THEN Refs(made.out) ELSE Ref(made.out[1]))],
             made.uuid, <<>>)

\* setRelationship(record, relationshipName, ...) and `return doc`
SetRelated(h, u, a, name, rel, made) ==
  IF made.err # NoErr THEN Failed(h, u, made.err)
  ELSE Built([made.heap EXCEPT ![a] = SetKey(@, name, IF rel.relationshipType = HasMany
                                                        THEN Refs(made.out) ELSE Ref(made.out[1]))],
             made.uuid, <<>>)

\* the continuation: related.map on a has-many's doc.data that is no array
\* is a TypeError
findRelated(h, u, a, name, rel, doc) ==
  SetRelated(h, u, a, name, rel,
             IF rel.relationshipType = HasMany /\ doc.data # "many"
             THEN [Start(h, u) EXCEPT !.err = TypeError]
             ELSE Materialize(RelatedResources(rel, doc), 1, Start(h, u)))

\* a continuation that clears the relationship property when the fetch fails
FindRelatedResumeClearing ==
  \E c \in 1..Len(calls) :
    /\ Awaiting(c, "findRelated")
    /\ \/ Settle(c, "error", calls[c].document, Rejected(TransportError),
                 [heap EXCEPT ![calls[c].record] = SetKey(@, calls[c].name, Undef)], uuid)
       \/ SettleBuilt(c, "document", wire,
            findRelated(heap, uuid, calls[c].record, calls[c].name,
                        relationshipDefinitions[TypeOf(heap[calls[c].record])][calls[c].name], wire))

\* the continuation after `await _fetcher.fetchBelongsTo(...)` or fetchHasMany
FindRelatedResume ==
  \E c \in 1..Len(calls) :
    /\ Awaiting(c, "findRelated")
    /\ \/ Settle(c, "error", calls[c].document, Rejected(TransportError), heap, uuid)
       \/ SettleBuilt(c, "document", wire,
            findRelated(heap, uuid, calls[c].record, calls[c].name,
                        relationshipDefinitions[TypeOf(heap[calls[c].record])][calls[c].name], wire))

\* the records findRelated is called on
Fetched == [type |-> Str("articles"), id |-> Str("1"), title |-> Str("test222")]

\* the last one an article whose author and comments are set already
RelatedHeaps ==
  {<<Fetched>>, <<AuthorId>>, <<Tag>>, <<Stray>>, <<AuthorLid, NewComment, Discussed(1, <<2>>)>>}

RelatedDocs == DocumentsOver({PersonA, CommentC})

InitRelated == InitWith(RelatedDocs, RelatedHeaps)

NextRelated == FindRelatedCall \/ FindRelatedResume

SpecRelated == InitRelated /\ [][NextRelated]_vars

-----------------------------------------------------------------------------
(* createRecord, called by the caller *)

CreateTypes == {"articles", "people", "bogus"}

CreateProperties ==
  {EmptyObject,
   [title |-> Str("T")],
   [id |-> Str("5"), title |-> Str("T")],
   [id |-> Undef, title |-> Str("T")],
   [title |-> Undef],
   [type |-> Str("bogus"), title |-> Str("T")],
   ("first-name" :> Str("Dan"))}

\* createRecord returns the record, or throws
Created(frame, made) ==
  IF made.err # NoErr THEN Fail(frame, made.err)
  ELSE /\ calls' = Append(calls, [frame EXCEPT !.result = Resolved(<<Len(heap) + 1>>),
                                               !.base = Len(heap), !.ids = uuid])
       /\ heap' = Append(heap, made.val)
       /\ uuid' = uuid + made.used
       /\ UNCHANGED <<modelDefinitions, relationshipDefinitions, kebabCase, sent, wire, http>>

CreateRecordCall ==
  \E type \in CreateTypes, properties \in CreateProperties :
    /\ Len(calls) < MaxCalls
    /\ Created([Frame("createRecord") EXCEPT !.type = type, !.properties = properties],
               createRecord(type, properties, Uuid(uuid + 1)))

\* resources whose attributes hold the reserved keys
PersonTyped == Resource("people", Str("1"), [type |-> Str("bogus"), firstName |-> Str("Dan")])

PersonRenamed == Resource("people", Str("2"), [id |-> Str("77"), firstName |-> Str("Dan")])

FactoryPool == {PersonTyped, PersonRenamed, Article2, Unknown}

FactoryDocs == DocumentsOver(FactoryPool)

InitFactory == InitWith(FactoryDocs, {<<>>})

NextFactory ==
  CreateRecordCall \/ FindAllCall \/ FindAllResume \/ FindRecordCall \/ FindRecordResume

SpecFactory == InitFactory /\ [][NextFactory]_vars

-----------------------------------------------------------------------------
(* JsonApiFetcherImpl.  A response is [status, body, reusable]: body tells  *)
(* what response.json() gives ("document", "errors" for an error document, *)
(* "invalid" when the body does not parse), reusable whether json() can be *)
(* called again (the tests' mock) or the body is a stream read once.       *)

MaxRequests == 1

Responses ==
  {r \in [status : {200, 204, 404, 500}, body : {"document", "errors", "invalid"}, reusable : BOOLEAN] :
     r.status = 204 => r.body = "invalid"}

NoResponse == [status |-> 0, body |-> "invalid", reusable |-> FALSE]

\* response.ok
Ok(response) == response.status \in 200..299

\* the error tryError throws: the message with the status, and with the
\* first error's title and detail when the body is an error document
HttpError(response) ==
  Err(IF response.body = "errors" THEN "HTTP error! status: - title: detail" ELSE "HTTP error! status:",
      ToString(response.status))

\* a call of the fetcher: where it is ("fetch", "json", "done"), the
\* response, what the response.json() it awaits settles with, the promise
\* of tryError that nobody awaits ("none", "resolved", "pending",
\* "rejected"), the document and the result
HttpCall(method) ==
  [method |-> method, stage |-> "fetch", received |-> FALSE, response |-> NoResponse,
   json |-> "none", floating |-> "none", document |-> "none", result |-> Pending]

HttpStart(method) ==
  /\ http' = Append(http, HttpCall(method))
  /\ UNCHANGED <<modelDefinitions, relationshipDefinitions, kebabCase, heap, uuid, calls, sent, wire>>

\* fetchDocument, fetchHasMany, fetchBelongsTo and post: req(url, options)
ReqCall ==
  \E method \in {"fetchDocument", "fetchHasMany", "fetchBelongsTo", "post"} :
    /\ Len(http) < MaxRequests
    /\ HttpStart(method)

PostAtomicCall ==
  /\ Len(http) < MaxRequests
  /\ HttpStart("postAtomic")

\* tryError(response) up to its first await: it returns, or calls
\* response.json()
tryError(response) == IF Ok(response) THEN "resolved" ELSE "pending"

\* what `await response.json()` of req and postAtomic settles with, tryError
\* having read the body before when the response is not ok
Json(response) ==
  IF ~Ok(response) /\ ~response.reusable THEN "TypeError" ELSE response.body

\* from `const response = await fetch(...)` to the next await or the return
AfterFetch(call, response) ==
  IF call.method = "postAtomic" /\ response.status = 204
  THEN [call EXCEPT !.stage = "done", !.received = TRUE, !.response = response,
                    !.floating = tryError(response), !.result = ResolvedUndefined]
  ELSE [call EXCEPT !.stage = "json", !.received = TRUE, !.response = response,
                    !.floating = tryError(response), !.json = Json(response)]

FetchResume ==
  \E r \in 1..Len(http) :
    /\ http[r].stage = "fetch"
    /\ \/ http' = [http EXCEPT ![r].stage = "done", ![r].result = Rejected(Err("fetch failed", ""))]
       \/ \E response \in Responses : http' = [http EXCEPT ![r] = AfterFetch(@, response)]
    /\ UNCHANGED <<modelDefinitions, relationshipDefinitions, kebabCase, heap, uuid, calls, sent, wire>>

\* `return data`, or the rejection of response.json()
AfterJson(call) ==
  IF call.json \in {"document", "errors"}
  THEN [call EXCEPT !.stage = "done", !.document = call.json, !.result = Resolved(<<>>)]
  ELSE IF call.json = "TypeError" THEN [call EXCEPT !.stage = "done", !.result = Rejected(TypeError)]
  ELSE [call EXCEPT !.stage = "done", !.result = Rejected(Err("SyntaxError", ""))]

JsonResume ==
  \E r \in 1..Len(http) :
    /\ http[r].stage = "json"
    /\ http' = [http EXCEPT ![r] = AfterJson(@)]
    /\ UNCHANGED <<modelDefinitions, relationshipDefinitions, kebabCase, heap, uuid, calls, sent, wire>>

\* tryError goes on after its response.json() and throws the HttpError: the
\* promise it rejects is the one req and postAtomic dropped
TryErrorResume ==
  \E r \in 1..Len(http) :
    /\ http[r].floating = "pending"
    /\ http' = [http EXCEPT ![r].floating = "rejected"]
    /\ UNCHANGED <<modelDefinitions, relationshipDefinitions, kebabCase, heap, uuid, calls, sent, wire>>

InitFetcher == InitWith({Document("absent", <<>>, FALSE, <<>>)}, {<<>>})

NextFetcher == ReqCall \/ PostAtomicCall \/ FetchResume \/ JsonResume \/ TryErrorResume

SpecFetcher == InitFetcher /\ [][NextFetcher]_vars

\* saveAtomic over a transport, and postAtomic of JsonApiFetcherImpl
InitAtomic == InitWith(SaveDocs, {<<AuthorLid, NewArticle(1)>>})

NextAtomic ==
  SaveAtomicCall \/ SaveAtomicResume \/ PostAtomicCall \/ FetchResume \/ JsonResume \/ TryErrorResume

SpecAtomic == InitAtomic /\ [][NextAtomic]_vars

-----------------------------------------------------------------------------
(* What the checks below read off an invocation of findAll or findRecord *)

\* the continuation of call c has decoded the transport's document
Decoded(c) == calls[c].op \in {"findAll", "findRecord"} /\ calls[c].response = "document"

\* the resources the call decoded as top-level, and as included
TopLevel(f) == IF f.op = "findAll" THEN f.document.resources ELSE DataAsOne(f.document)

Included(f) == IF f.document.hasIncluded THEN f.document.included ELSE <<>>

\* the addresses of the records built from included[j] and from top-level k
IncludedRecord(f, j) == f.base + j

TopRecord(f, k) == f.base + Len(Included(f)) + k

\* the decode the call made, made again on another document
Redo(f, doc) ==
  IF f.op = "findAll" THEN findAll(SubSeq(heap, 1, f.base), f.ids, doc)
  ELSE findRecord(SubSeq(heap, 1, f.base), f.ids, f.id, doc)

SameIdOtherType(q) == \E i, j \in 1..Len(q) : q[i].type # q[j].type /\ q[i].id = q[j].id

\* included[j] is the resource the identifier names
Names(rid, resource) == resource.js = "object" /\ resource.type = rid.type /\ resource.id = rid.id

Declared(resource, entry) ==
  /\ resource.type \in DOMAIN relationshipDefinitions
  /\ normalize(entry.name) \in DOMAIN relationshipDefinitions[resource.type]

RelOf(resource, entry) == relationshipDefinitions[resource.type][normalize(entry.name)]

-----------------------------------------------------------------------------
(* C1 *)

\* C1: in a decoded document whose included resources hold two of different
\* types with the same id, a linkage {type: T, id: i} of a declared
\* relationship on a top-level parent, T being the relationship's type and
\* (T, i) an included resource, is populated with the record built from an
\* included resource of type T and id i, and no relationship of the parent
\* holds a record built from a resource of another type than its linkage's.
C1_Parent(f, k) ==
  LET parent == TopLevel(f)[k]
      record == heap[f.result.records[k]]
      inc == Included(f)
      fromIncluded(a, rid) ==
        /\ a - f.base \in 1..Len(inc)
        /\ Names(rid, inc[a - f.base])
  IN \A q \in 1..Len(parent.relationships) :
       LET entry == parent.relationships[q]
           rel == RelOf(parent, entry)
           value == Get(record, normalize(entry.name))
       IN Declared(parent, entry) =>
            /\ (rel.relationshipType = BelongsTo /\ entry.data = "one"
                /\ entry.rids[1].type = rel.type
                /\ \E j \in 1..Len(inc) : Names(entry.rids[1], inc[j]))
               => (value.kind = "record" /\ fromIncluded(value.refs[1], entry.rids[1]))
            /\ (rel.relationshipType = HasMany /\ entry.data = "many")
               => /\ value.kind = "array"
                  /\ \A p \in 1..Len(entry.rids) :
                       (entry.rids[p].type = rel.type /\ \E j \in 1..Len(inc) : Names(entry.rids[p], inc[j]))
                       => \E x \in 1..Len(value.refs) : fromIncluded(value.refs[x], entry.rids[p])
                  /\ \A x \in 1..Len(value.refs) :
                       /\ Get(heap[value.refs[x]], "type") = Str(rel.type)
                       /\ \E p \in 1..Len(entry.rids) :
                            MapKey(heap[value.refs[x]]) = KeyOf(Str(entry.rids[p].type), entry.rids[p].id)

C1_TypedLookup ==
  \A c \in 1..Len(calls) :
    (/\ Decoded(c)
     /\ calls[c].result.st = "resolved"
     /\ SameIdOtherType(Included(calls[c])))
    => \A k \in 1..Len(calls[c].result.records) : C1_Parent(calls[c], k)

\* an article decoded with a person and a comment of the same id included,
\* its author and its comments populated
C1_Witness ==
  \E c \in 1..Len(calls) :
    /\ Decoded(c)
    /\ calls[c].result.st = "resolved"
    /\ SameIdOtherType(Included(calls[c]))
    /\ \E k \in 1..Len(calls[c].result.records) :
         /\ TopLevel(calls[c])[k] = Article1
         /\ Get(heap[calls[c].result.records[k]], "author").kind = "record"
         /\ Len(Get(heap[calls[c].result.records[k]], "comments").refs) = 1

-----------------------------------------------------------------------------
(* C2 *)

AllResources(f) == TopLevel(f) \o Included(f)

ConfiguredTypes(f) ==
  \A i \in 1..Len(AllResources(f)) :
    AllResources(f)[i].js = "object" /\ AllResources(f)[i].type \in modelDefinitions

\* person A's first comments linkage names a comment C of the document whose
\* author linkage names A
Cycle(f, A) ==
  /\ A.js = "object" /\ A.type = "people"
  /\ \E q \in 1..Len(A.relationships), i \in 1..Len(AllResources(f)) :
       LET entry == A.relationships[q]
           C == AllResources(f)[i]
       IN /\ entry.name = "comments" /\ entry.data = "many" /\ entry.rids # <<>>
          /\ C.type = "comments" /\ Names(entry.rids[1], C)
          /\ \E r \in 1..Len(C.relationships) :
               /\ C.relationships[r].name = "author" /\ C.relationships[r].data = "one"
               /\ Names(C.relationships[r].rids[1], A)

\* C2 (as claimed): for any document of resources of configured types in
\* which top-level person A has a has-many comments linkage to comment C and
\* C a belongs-to author linkage back to A, findAll and findRecord resolve
\* and decodedA.comments[0].author is the record decodedA itself.
C2_CycleSafe ==
  \A c \in 1..Len(calls) :
    (Decoded(c) /\ ConfiguredTypes(calls[c])) =>
      \A k \in 1..Len(TopLevel(calls[c])) :
        Cycle(calls[c], TopLevel(calls[c])[k]) =>
          /\ calls[c].result.st = "resolved"
          /\ LET decodedA == calls[c].result.records[k]
                 comments == Get(heap[decodedA], "comments")
             IN /\ comments.kind = "array"
                /\ comments.refs # <<>>
                /\ Get(heap[comments.refs[1]], "author") = Ref(decodedA)

-----------------------------------------------------------------------------
(* C3 *)

WithoutEntry(resource, q) ==
  [resource EXCEPT !.relationships = SubSeq(@, 1, q - 1) \o SubSeq(@, q + 1, Len(@))]

\* the document with entry q of included[j] (top = FALSE) or of the
\* top-level resource j (top = TRUE) taken out
DocumentWithout(doc, top, j, q) ==
  IF top THEN [doc EXCEPT !.resources[j] = WithoutEntry(@, q)]
  ELSE [doc EXCEPT !.included[j] = WithoutEntry(@, q)]

\* call c decoded as it would have decoded `doc`: the same outcome, the same
\* records, the same objects
SameDecode(c, doc) ==
  LET again == Redo(calls[c], doc)
  IN IF calls[c].result.st = "rejected" THEN again.err = calls[c].result.err
     ELSE /\ again.err = NoErr
          /\ again.records = calls[c].result.records
          /\ again.heap = SubSeq(heap, 1, Len(again.heap))

LinksOnlyAt(c, top) ==
  LET f == calls[c]
      resources == IF top THEN f.document.resources ELSE Included(f)
      built(j) == IF top THEN TopRecord(f, j) ELSE IncludedRecord(f, j)
  IN \A j \in 1..Len(resources) :
       \A q \in 1..Len(resources[j].relationships) :
         resources[j].relationships[q].data = "absent" =>
           /\ SameDecode(c, DocumentWithout(f.document, top, j, q))
           /\ f.result.st = "resolved" =>
                normalize(resources[j].relationships[q].name) \notin DOMAIN heap[built(j)]

\* C3: a relationship entry without a data key leaves the property of the
\* record built from its resource unset, the record does not own the key,
\* and everything else is decoded as if the entry were not there: the same
\* outcome and the same records with the same attributes and relationships.
C3_LinksOnlyOmitted ==
  \A c \in 1..Len(calls) : Decoded(c) => \A top \in BOOLEAN : LinksOnlyAt(c, top)

\* an article with a links-only author decoded: no author, and its title and
\* comments are there
C3_Witness ==
  \E c \in 1..Len(calls) :
    /\ Decoded(c) /\ calls[c].result.st = "resolved"
    /\ TopLevel(calls[c]) # <<>>
    /\ TopLevel(calls[c])[1] = Article2
    /\ "author" \notin DOMAIN heap[calls[c].result.records[1]]
    /\ Get(heap[calls[c].result.records[1]], "title") = Str("T")
    /\ Len(Get(heap[calls[c].result.records[1]], "comments").refs) = 1

-----------------------------------------------------------------------------
(* C4 *)

\* C4 (as claimed): when the transport resolves with a document whose data
\* is absent, null or an empty array, findRecord rejects with 'Record with
\* id <id> not found'.
C4_NotFound ==
  \A c \in 1..Len(calls) :
    (/\ calls[c].op = "findRecord"
     /\ calls[c].response = "document"
     /\ \/ calls[c].document.data \in {"absent", "null"}
        \/ calls[c].document.data = "many" /\ calls[c].document.resources = <<>>)
    => calls[c].result = Rejected(Err("Record not found", calls[c].id))

-----------------------------------------------------------------------------
(* What the checks below read off an invocation of saveRecord or saveAtomic *)

\* the call made its transport call
Sent(c) == calls[c].op \in {"saveRecord", "saveAtomic"} /\ calls[c].request # 0

\* the resources it sent, and the addresses of the records they encode
Body(f) == sent[f.request].body

Encoded(f) ==
  IF f.op = "saveRecord" THEN <<f.record>>
  ELSE [i \in 1..Len(f.operations) |-> f.operations[i].data]

\* the relationship entry of name `key` in a resource
EntriesOf(resource, key) ==
  {q \in 1..Len(resource.relationships) : resource.relationships[q].name = key}

\* the declared relationship properties of a record that serialize reads
DeclaredKeys(record) ==
  IF TypeOf(record) \in DOMAIN relationshipDefinitions
  THEN {k \in Serialized(record) : k \in DOMAIN relationshipDefinitions[TypeOf(record)]}
  ELSE {}

\* the related records of property `key`, in order
RelatedOf(record, key) ==
  IF record[key].kind \in {"record", "array"} THEN record[key].refs ELSE <<>>

-----------------------------------------------------------------------------
(* C5 *)

\* the identifier of a related record, as amended and as claimed
C5_LidElseId(rid, related) ==
  /\ Truthy(Get(related, "lid")) => (rid.lid = related.lid /\ rid.id = Undef)
  /\ (~Truthy(Get(related, "lid")) /\ Truthy(Get(related, "id"))) => (rid.id = related.id /\ rid.lid = Undef)
  /\ (~Truthy(Get(related, "lid")) /\ ~Truthy(Get(related, "id"))) => (rid.id = Undef /\ rid.lid = Undef)

C5_ExactlyOneOf(rid, related) ==
  /\ (rid.lid # Undef) # (rid.id # Undef)
  /\ Truthy(Get(related, "lid")) => rid.lid = related.lid
  /\ ~Truthy(Get(related, "lid")) => rid.id = Get(related, "id")

\* every related record of every declared property of every record encoded
\* by call c has its identifier, in its place, of the related record's type
\* and nothing besides type, id and lid, with lid and id as claimed
\* (claimed = TRUE) or as amended
EachLinkage(c, claimed) ==
  \A i \in 1..Len(Body(calls[c])) :
    LET record == heap[Encoded(calls[c])[i]]
        resource == Body(calls[c])[i]
    IN \A key \in DeclaredKeys(record) :
         /\ Cardinality(EntriesOf(resource, key)) = 1
         /\ \A q \in EntriesOf(resource, key) :
              LET entry == resource.relationships[q]
              IN /\ Len(entry.rids) = Len(RelatedOf(record, key))
                 /\ key \notin DOMAIN resource.attributes
                 /\ \A p \in 1..Len(entry.rids) :
                      /\ DOMAIN entry.rids[p] = {"type", "id", "lid"}
                      /\ entry.rids[p].type = TypeOf(heap[RelatedOf(record, key)[p]])
                      /\ IF claimed
                         THEN C5_ExactlyOneOf(entry.rids[p], heap[RelatedOf(record, key)[p]])
                         ELSE C5_LidElseId(entry.rids[p], heap[RelatedOf(record, key)[p]])

\* C5 (amended): in every resource saveRecord and saveAtomic send, each
\* related record of a declared belongs-to or has-many property is emitted as
\* an identifier of `type` plus at most one of lid and id, and nothing else:
\* the lid when the related record has a non-empty lid (even if it also has
\* an id), otherwise the id when it has a non-empty id, otherwise neither.
C5_LidOverId == \A c \in 1..Len(calls) : Sent(c) => EachLinkage(c, FALSE)

\* C5 (as claimed): each related record is emitted as an identifier of
\* `type` plus exactly one of lid and id: the lid whenever the related record
\* has a lid, otherwise the id.
C5_ExactlyOne == \A c \in 1..Len(calls) : Sent(c) => EachLinkage(c, TRUE)

\* the atomic batch [author, article] of an author with lid 'local-1' and an
\* id besides is sent with the article's author as {type: 'people', lid: 'local-1'}
C5_Witness ==
  \E c \in 1..Len(calls) :
    /\ Sent(c) /\ calls[c].op = "saveAtomic"
    /\ Len(calls[c].operations) = 2
    /\ heap[calls[c].operations[1].data] = AuthorBoth
    /\ heap[calls[c].operations[2].data] = NewArticle(calls[c].operations[1].data)
    /\ Body(calls[c])[2].relationships = <<LinkageOne("author", Lid("people", Str("local-1")))>>

-----------------------------------------------------------------------------
(* C6 *)

\* call c is a saveRecord, answered with the resource it posted, of a record
\* of a defined type without relationship properties
C6_Echoed(c) ==
  /\ calls[c].op = "saveRecord"
  /\ calls[c].response = "echo"
  /\ TypeOf(heap[calls[c].record]) \in modelDefinitions
  /\ DeclaredKeys(heap[calls[c].record]) = {}

\* C6 (amended): encoding a record of a defined type that has only attribute
\* properties and decoding the resource gives a record of the same type
\* whose attributes are the original's defined-valued ones under their
\* normalized keys (the same keys unless kebabCase is set and a key has a
\* hyphen), with the same values, and whose id is the original's whenever
\* the original has a non-empty id and no non-empty lid.
C6_RoundTrip ==
  \A c \in 1..Len(calls) :
    C6_Echoed(c) =>
      /\ calls[c].result.st = "resolved"
      /\ Len(calls[c].result.records) = 1
      /\ LET original == heap[calls[c].record]
             decoded == heap[calls[c].result.records[1]]
         IN /\ Get(decoded, "type") = Get(original, "type")
            /\ DOMAIN decoded \ {"id", "type"} = {normalize(k) : k \in Serialized(original)}
            /\ \A k \in Serialized(original) : Get(decoded, normalize(k)) = original[k]
            /\ (Truthy(Get(original, "id")) /\ ~Truthy(Get(original, "lid")))
               => Get(decoded, "id") = original.id

\* C6 (as claimed): the decoded record equals the original in type,
\* attribute keys and attribute values, and in id whenever the original had
\* one, with or without a lid.
C6_RoundTripAny ==
  \A c \in 1..Len(calls) :
    C6_Echoed(c) =>
      /\ calls[c].result.st = "resolved"
      /\ Len(calls[c].result.records) = 1
      /\ LET original == heap[calls[c].record]
             decoded == heap[calls[c].result.records[1]]
         IN /\ Get(decoded, "type") = Get(original, "type")
            /\ DOMAIN decoded \ {"id", "type"} = Serialized(original)
            /\ \A k \in Serialized(original) : Get(decoded, k) = original[k]
            /\ Truthy(Get(original, "id")) => Get(decoded, "id") = original.id

\* a person with id '9' and no lid, saved and echoed: the record returned has
\* id '9' and the person's first name
C6_Witness ==
  \E c \in 1..Len(calls) :
    /\ C6_Echoed(c)
    /\ heap[calls[c].record] = AuthorId
    /\ calls[c].result.st = "resolved"
    /\ calls[c].result.records[1] # calls[c].record
    /\ Get(heap[calls[c].result.records[1]], "id") = Str("9")
    /\ Get(heap[calls[c].result.records[1]], "firstName") = Str("John")

-----------------------------------------------------------------------------
(* C8 *)

\* C8: a findRelated on a record whose type has no relationship map rejects
\* with 'Model <type> has no relationships', one with a name that is not
\* declared for the type with 'Relationship <name> not defined'; the step
\* that rejects makes no transport call and changes no record, and the call
\* takes no step afterwards.
C8_DefinitionErrors ==
  [][/\ \A c \in 1..Len(calls') :
          (c > Len(calls) /\ calls'[c].op = "findRelated") =>
            LET type == TypeOf(heap[calls'[c].record])
                name == calls'[c].name
            IN /\ type \notin DOMAIN relationshipDefinitions =>
                    /\ calls'[c].result = Rejected(Err("Model has no relationships", type))
                    /\ calls'[c].request = 0 /\ sent' = sent /\ heap' = heap
               /\ (type \in DOMAIN relationshipDefinitions
                   /\ name \notin DOMAIN relationshipDefinitions[type]) =>
                    /\ calls'[c].result = Rejected(Err("Relationship not defined", name))
                    /\ calls'[c].request = 0 /\ sent' = sent /\ heap' = heap
     /\ \A c \in 1..Len(calls) :
          (calls[c].op = "findRelated" /\ calls[c].request = 0) => calls'[c] = calls[c]]_vars

\* findRelated on a tag, whose model has no relationships, has rejected; no
\* transport call was made and the tag is as it was
C8_Witness ==
  \E c \in 1..Len(calls) :
    /\ calls[c].op = "findRelated"
    /\ calls[c].result = Rejected(Err("Model has no relationships", "tags"))
    /\ sent = <<>>
    /\ heap = <<Tag>>

-----------------------------------------------------------------------------
(* C7 *)

\* the types of the resources call c decoded that are no configured types
UnknownTypes(f) ==
  {AllResources(f)[i].type : i \in {j \in 1..Len(AllResources(f)) :
     AllResources(f)[j].js = "object" /\ AllResources(f)[j].type \notin modelDefinitions}}

\* findAll of a document whose data is a list, findRecord of one whose data
\* is one resource
WellFormed(f) ==
  \/ f.op = "findAll" /\ f.document.data = "many"
  \/ f.op = "findRecord" /\ f.document.data = "one"

\* C7 (as claimed): every record createRecord, findAll and findRecord
\* produce has a `type` that is a configured model type; createRecord with
\* an unknown type, and the decoding of a document with a top-level or
\* included resource of an unknown type, fail with 'Model type <type> not
\* defined' and produce no record.
C7_DefinedType ==
  /\ \A a \in 1..Len(heap) : TypeOf(heap[a]) \in modelDefinitions
  /\ \A c \in 1..Len(calls) :
       /\ (calls[c].op = "createRecord" /\ calls[c].type \notin modelDefinitions) =>
            /\ calls[c].result = Rejected(Err("Model type not defined", calls[c].type))
            /\ Len(heap) = calls[c].base
       /\ (Decoded(c) /\ WellFormed(calls[c]) /\ UnknownTypes(calls[c]) # {}) =>
            /\ \E t \in UnknownTypes(calls[c]) :
                 calls[c].result = Rejected(Err("Model type not defined", t))
            /\ Len(heap) = calls[c].base

-----------------------------------------------------------------------------
(* C9 *)

\* C9 (as claimed): a call of fetchDocument, fetchHasMany, fetchBelongsTo,
\* post or postAtomic that got a response with a non-success status rejects
\* with the HttpError of that status, and never resolves.
C9_ErrorSurfaced ==
  \A r \in 1..Len(http) :
    (http[r].received /\ ~Ok(http[r].response)) =>
      /\ http[r].result.st # "resolved"
      /\ http[r].stage = "done" => http[r].result = Rejected(HttpError(http[r].response))

-----------------------------------------------------------------------------
(* C10 *)

\* C10: saveAtomic resolves with undefined exactly when its transport call
\* resolved with no document; when the transport gave a document it resolves
\* with { doc, records } or rejects, when the transport failed it rejects;
\* and postAtomic of JsonApiFetcherImpl resolves with no document exactly
\* when the response's status is 204.
C10_NoContent ==
  /\ \A c \in 1..Len(calls) :
       (calls[c].op = "saveAtomic" /\ calls[c].result.st # "pending") =>
         /\ calls[c].response = "absent" <=> calls[c].result = ResolvedUndefined
         /\ calls[c].response \in {"echo", "document"} =>
              (calls[c].result.st = "resolved" => calls[c].result.defined)
         /\ calls[c].response \in {"error", "none"} => calls[c].result.st = "rejected"
  /\ \A r \in 1..Len(http) :
       (http[r].stage = "done" /\ http[r].received) =>
         (http[r].response.status = 204 <=> http[r].result = ResolvedUndefined)

\* a batch answered with no document has resolved with undefined, and a
\* postAtomic answered 204 has resolved with no document
C10_Witness ==
  /\ \E c \in 1..Len(calls) :
       /\ calls[c].op = "saveAtomic" /\ calls[c].operations # <<>>
       /\ calls[c].response = "absent" /\ calls[c].result = ResolvedUndefined
  /\ \E r \in 1..Len(http) :
       /\ http[r].method = "postAtomic" /\ http[r].response.status = 204
       /\ http[r].result = ResolvedUndefined

-----------------------------------------------------------------------------
(* C11 *)

\* every operation of the batch carries a ref and no data record
C11_RefsOnly(f) ==
  /\ f.op = "saveAtomic"
  /\ f.operations # <<>>
  /\ \A i \in 1..Len(f.operations) : f.operations[i].data = 0

\* C11 (as claimed): a saveAtomic whose operations carry only a ref and no
\* data record does not throw: it makes its postAtomic call, and when the
\* transport answers with results that decode it resolves with one record
\* for each result.
C11_RefOnly ==
  \A c \in 1..Len(calls) :
    C11_RefsOnly(calls[c]) =>
      /\ calls[c].request # 0
      /\ (/\ calls[c].response = "document"
          /\ calls[c].document.data = "many"
          /\ saveAtomic(<<>>, 0, calls[c].document).err = NoErr)
         => /\ calls[c].result.st = "resolved"
            /\ Len(calls[c].result.records) = Len(calls[c].document.resources)

-----------------------------------------------------------------------------
(* C12 *)

\* the records a value refers to
Targets(v) == {v.refs[i] : i \in 1..Len(v.refs)}

\* the records call c built: those of included, then the top-level ones
Segment(f) == (f.base + 1)..(f.base + Len(Included(f)) + Len(TopLevel(f)))

\* the record at address x has the type and id of an included resource
OfIncluded(f, x) ==
  \E j \in 1..Len(Included(f)) :
    MapKey(heap[x]) = KeyOf(Str(Included(f)[j].type), Included(f)[j].id)

\* C12: in one decoded document with an `included` member, every declared
\* linkage of a top-level parent that names an included resource is populated with the record built
\* from it, and any two relationship slots of any two records of the
\* document that hold a record of the same type and id as an included
\* resource hold the same object, the one built from `included`: no slot
\* holds a copy.
C12_SharedIncluded ==
  \A c \in 1..Len(calls) :
    (Decoded(c) /\ calls[c].result.st = "resolved" /\ calls[c].document.hasIncluded) =>
      /\ \A k \in 1..Len(calls[c].result.records) : C1_Parent(calls[c], k)
      /\ \A a, b \in Segment(calls[c]) :
           \A ka \in DOMAIN heap[a], kb \in DOMAIN heap[b] :
             \A x \in Targets(heap[a][ka]), y \in Targets(heap[b][kb]) :
               (MapKey(heap[x]) = MapKey(heap[y]) /\ OfIncluded(calls[c], x)) =>
                 /\ x = y
                 /\ x - calls[c].base \in 1..Len(Included(calls[c]))

\* an article and a comment decoded with their author included: the two
\* author slots hold one object, the record built from the included person
C12_Witness ==
  \E c \in 1..Len(calls) :
    /\ Decoded(c) /\ calls[c].result.st = "resolved"
    /\ calls[c].document.included = <<PersonA>>
    /\ \E k1, k2 \in 1..Len(calls[c].result.records) :
         /\ TopLevel(calls[c])[k1] = Article1
         /\ TopLevel(calls[c])[k2] = CommentC
         /\ Get(heap[calls[c].result.records[k1]], "author") = Ref(calls[c].base + 1)
         /\ Get(heap[calls[c].result.records[k2]], "author") = Ref(calls[c].base + 1)

-----------------------------------------------------------------------------
(* Decoding under a configuration with a camelCase relationship name *)

\* people with a belongs-to `bestFriend`, as the kebab-case tests' `users`
\* have camelCase properties
NamesModelDefinitions ==
  <<[type |-> "people", hasRelationships |-> TRUE,
     relationships |-> [comments |-> [type |-> "comments", relationshipType |-> HasMany],
                        bestFriend |-> [type |-> "people", relationshipType |-> BelongsTo]]],
    [type |-> "comments", hasRelationships |-> TRUE,
     relationships |-> [author |-> [type |-> "people", relationshipType |-> BelongsTo]]]>>

\* a person in kebab-case: attributes and relationship name with hyphens
Hyphened ==
  WithRelationships(Resource("people", Str("1"),
                             ("first-name" :> Str("John")) @@ ("last-name" :> Str("Doe"))),
                    <<LinkageOne("best-friend", Rid("people", Str("2")))>>)

\* a person in camelCase
Friend ==
  WithRelationships(Resource("people", Str("2"), [firstName |-> Str("Dan")]),
                    <<LinkageOne("bestFriend", Rid("people", Str("1")))>>)

\* a comment whose author is known to be empty: data is null
Widowed ==
  WithRelationships(Resource("comments", Str("1"), [body |-> Str("First!")]),
                    <<LinkageNull("author")>>)

NamesPool == {Hyphened, Friend, Widowed}

NamesDocs == DocumentsOver(NamesPool)

InitNames ==
  /\ modelDefinitions = useJsonApiModels(NamesModelDefinitions)
  /\ relationshipDefinitions = useJsonApiRelationships(NamesModelDefinitions)
  /\ kebabCase \in BOOLEAN
  /\ heap = <<>>
  /\ uuid = 0
  /\ calls = <<>>
  /\ sent = <<>>
  /\ wire \in NamesDocs
  /\ http = <<>>

NextNames ==
  CreateRecordCall \/ FindAllCall \/ FindAllResume \/ FindRecordCall \/ FindRecordResume

SpecNames == InitNames /\ [][NextNames]_vars

-----------------------------------------------------------------------------
(* C13 *)

\* the in-memory name of a wire key: camel of it with config.kebabCase set,
\* the key itself with the flag unset
C13_Name(key) == IF kebabCase THEN camel(key) ELSE key

\* createRecord(type, properties) gave `record`
C13_Created(properties, record) ==
  IF kebabCase
  THEN /\ DOMAIN record =
            {"id", "type"} \cup {camel(k) : k \in {p \in DOMAIN properties : p # "id" /\ properties[p] # Undef}}
       /\ \A k \in DOMAIN properties : (k # "id" /\ properties[k] # Undef) => record[camel(k)] = properties[k]
  ELSE /\ DOMAIN record = {"id", "type"} \cup DOMAIN properties
       /\ \A k \in DOMAIN properties : record[k] = properties[k]

\* the names of the relationship entries of a resource that are populated:
\* those declared under their in-memory name that carry data
C13_Populated(f, resource) ==
  IF f.document.hasIncluded /\ resource.type \in DOMAIN relationshipDefinitions
  THEN {C13_Name(resource.relationships[q].name) : q \in
          {i \in 1..Len(resource.relationships) :
             /\ C13_Name(resource.relationships[i].name) \in DOMAIN relationshipDefinitions[resource.type]
             /\ resource.relationships[i].data \in {"one", "many"}}}
  ELSE {}

\* the record built from a top-level resource
C13_Decoded(f, resource, record) ==
  /\ DOMAIN record = {"id", "type"} \cup {C13_Name(a) : a \in DOMAIN resource.attributes}
                       \cup C13_Populated(f, resource)
  /\ \A a \in DOMAIN resource.attributes : record[C13_Name(a)] = resource.attributes[a]

\* C13: with config.kebabCase set, every defined-valued property key given
\* to createRecord, every attribute key of a resource decoded by findAll or
\* findRecord, and every wire relationship name is mapped by camel
\* ('first-name' to 'firstName', 'best-friend' to 'bestFriend', keys without
\* hyphens unchanged): the record owns the mapped keys with the values
\* supplied, and a relationship is looked up and assigned under its mapped
\* name; with the flag unset the record owns every key exactly as supplied,
\* and a relationship name is looked up as it is on the wire.
C13_Normalized ==
  \A c \in 1..Len(calls) :
    /\ (calls[c].op = "createRecord" /\ calls[c].result.st = "resolved") =>
         C13_Created(calls[c].properties, heap[calls[c].result.records[1]])
    /\ (Decoded(c) /\ calls[c].result.st = "resolved") =>
         \A k \in 1..Len(calls[c].result.records) :
           C13_Decoded(calls[c], TopLevel(calls[c])[k], heap[calls[c].result.records[k]])

\* with kebabCase set, the kebab-case person decoded with the friend
\* included: firstName, lastName and bestFriend are there, 'first-name' is not
C13_Witness ==
  /\ kebabCase
  /\ \E c \in 1..Len(calls) :
       /\ Decoded(c) /\ calls[c].result.st = "resolved"
       /\ TopLevel(calls[c]) # <<>>
       /\ TopLevel(calls[c])[1] = Hyphened
       /\ Included(calls[c]) = <<Friend>>
       /\ Get(heap[calls[c].result.records[1]], "firstName") = Str("John")
       /\ Get(heap[calls[c].result.records[1]], "lastName") = Str("Doe")
       /\ Get(heap[calls[c].result.records[1]], "bestFriend") = Ref(calls[c].base + 1)
       /\ "first-name" \notin DOMAIN heap[calls[c].result.records[1]]

-----------------------------------------------------------------------------
(* C20 *)

\* C20 (as claimed): a declared relationship whose linkage has `data: null`
\* is not skipped like one without a data key: the assignment step runs for
\* it, and the decoded record owns the relationship's key.
C20_NullAssigned ==
  \A c \in 1..Len(calls) :
    (Decoded(c) /\ calls[c].result.st = "resolved" /\ calls[c].document.hasIncluded) =>
      \A k \in 1..Len(calls[c].result.records) :
        \A q \in 1..Len(TopLevel(calls[c])[k].relationships) :
          (/\ Declared(TopLevel(calls[c])[k], TopLevel(calls[c])[k].relationships[q])
           /\ TopLevel(calls[c])[k].relationships[q].data = "null")
          => normalize(TopLevel(calls[c])[k].relationships[q].name)
               \in DOMAIN heap[calls[c].result.records[k]]

-----------------------------------------------------------------------------
(* C14 *)

\* C14 (as claimed): the record decoded from a resource has the resource's
\* id and the resource's type, whatever its attributes hold, and an
\* attribute named 'lid' does not become the record's lid.
C14_ReservedFields ==
  \A c \in 1..Len(calls) :
    (Decoded(c) /\ WellFormed(calls[c]) /\ calls[c].result.st = "resolved") =>
      \A k \in 1..Len(calls[c].result.records) :
        /\ Get(heap[calls[c].result.records[k]], "id") = TopLevel(calls[c])[k].id
        /\ Get(heap[calls[c].result.records[k]], "type") = Str(TopLevel(calls[c])[k].type)
        /\ "lid" \in DOMAIN TopLevel(calls[c])[k].attributes
           => "lid" \notin DOMAIN heap[calls[c].result.records[k]]

-----------------------------------------------------------------------------
(* C15 *)

\* C15 (as claimed): createRecord of a defined type returns, without a
\* transport call, a record whose id is defined: properties.id when one is
\* given, otherwise a generated id no other record has, also when
\* properties has an id key whose value is undefined.
C15_IdAssigned ==
  \A c \in 1..Len(calls) :
    (calls[c].op = "createRecord" /\ calls[c].type \in modelDefinitions) =>
      /\ calls[c].result.st = "resolved"
      /\ calls[c].request = 0
      /\ LET record == heap[calls[c].result.records[1]]
             given == Get(calls[c].properties, "id")
         IN /\ Get(record, "id") # Undef
            /\ ~Nullish(given) => Get(record, "id") = given
            /\ Nullish(given) =>
                 /\ Get(record, "id") = Uuid(calls[c].ids + 1)
                 /\ \A a \in 1..Len(heap) :
                      a # calls[c].result.records[1] => Get(heap[a], "id") # Get(record, "id")

-----------------------------------------------------------------------------
(* C16 *)

\* call c is a findRelated that resolves in this step
C16_Resolving(c) ==
  /\ calls[c].op = "findRelated"
  /\ calls[c].result.st = "pending"
  /\ calls'[c].result.st = "resolved"

\* what the step that resolves findRelated(record, name) leaves: the
\* property holds the records just built, one for each fetched resource
C16_Assigned(c, a, name, rel, doc) ==
  LET value == Get(heap'[a], name)
  IN /\ DOMAIN heap'[a] = DOMAIN heap[a] \cup {name}
     /\ \A k \in DOMAIN heap[a] \ {name} : heap'[a][k] = heap[a][k]
     /\ rel.relationshipType = HasMany =>
          /\ doc.data = "many"
          /\ value.kind = "array"
          /\ Len(value.refs) = Len(doc.resources)
          /\ \A i \in 1..Len(doc.resources) :
               /\ value.refs[i] = Len(heap) + i
               /\ Get(heap'[value.refs[i]], "id") = doc.resources[i].id
     /\ rel.relationshipType = BelongsTo =>
          /\ value = Ref(Len(heap) + 1)
          /\ Len(heap') = Len(heap) + 1
          /\ doc.data = "one" =>
               /\ Get(heap'[Len(heap) + 1], "id") = doc.resources[1].id
               /\ \A k \in DOMAIN doc.resources[1].attributes :
                    Get(heap'[Len(heap) + 1], normalize(k)) = doc.resources[1].attributes[k]

\* C16: the step in which a findRelated of a declared relationship resolves
\* assigns to the owning record's property, replacing what it held, for a
\* has-many the sequence of the records built from the resources of the
\* fetched document's data, one for each, in their order and with their
\* ids, and for a belongs-to the one record built from the fetched resource;
\* nothing else of the record changes; the call has made exactly one
\* transport call, fetchHasMany or fetchBelongsTo for the record and the
\* name, and what it returns is the fetched document.
C16_Related ==
  [][\A c \in 1..Len(calls) :
       C16_Resolving(c) =>
         /\ calls'[c].response = "document"
         /\ calls'[c].document = wire
         /\ sent' = sent
         /\ calls[c].request \in 1..Len(sent)
         /\ \A d \in 1..Len(calls) : d # c => calls[d].request # calls[c].request
         /\ sent[calls[c].request].name = calls[c].name
         /\ sent[calls[c].request].method =
              (IF relationshipDefinitions[TypeOf(heap[calls[c].record])][calls[c].name].relationshipType = HasMany
               THEN "fetchHasMany" ELSE "fetchBelongsTo")
         /\ C16_Assigned(c, calls[c].record, calls[c].name,
                         relationshipDefinitions[TypeOf(heap[calls[c].record])][calls[c].name], wire)]_vars

\* findRelated(article, 'comments') on an article that had one comment has
\* resolved with a document of two resources: the article's comments are the
\* two records built from them
C16_Witness ==
  \E c \in 1..Len(calls) :
    /\ calls[c].op = "findRelated" /\ calls[c].result.st = "resolved"
    /\ calls[c].name = "comments"
    /\ calls[c].record = 3
    /\ Len(calls[c].document.resources) = 2
    /\ Get(heap[3], "comments") = Refs(<<calls[c].base + 1, calls[c].base + 2>>)
    /\ Get(heap[3], "author") = Ref(1)
    /\ Get(heap[calls[c].base + 2], "id") = calls[c].document.resources[2].id

-----------------------------------------------------------------------------
(* The five asynchronous operations on one instance, their calls overlapping *)

MaxInterleaved == 2

\* the caller's records: a person, and an article of that person
Dan == [type |-> Str("people"), id |-> Str("1"), firstName |-> Str("Dan")]

ConcurrentHeap == <<Dan, Discussed(1, <<>>)>>

ConcurrentDocs ==
  {Document("many", <<Article1, CommentC>>, TRUE, <<CommentC>>),
   Document("one", <<PersonA>>, TRUE, <<CommentC>>),
   Document("absent", <<>>, FALSE, <<>>)}

ConcurrentFindAll ==
  /\ Len(calls) < MaxInterleaved
  /\ Suspend([Frame("findAll") EXCEPT !.type = "articles"],
             Request("fetchDocument", "articles", "", "", <<>>))

ConcurrentFindRecord ==
  /\ Len(calls) < MaxInterleaved
  /\ Suspend([Frame("findRecord") EXCEPT !.type = "people", !.id = "1"],
             Request("fetchDocument", "people", "1", "", <<>>))

ConcurrentFindRelated ==
  \E a \in 1..Len(ConcurrentHeap), name \in {"author", "comments"} :
    /\ Len(calls) < MaxInterleaved
    /\ FindRelatedStart([Frame("findRelated") EXCEPT !.record = a, !.name = name],
                        TypeOf(heap[a]), Text(Get(heap[a], "id")), name)

ConcurrentSaveRecord ==
  \E a \in 1..Len(ConcurrentHeap) :
    /\ Len(calls) < MaxInterleaved
    /\ SaveRecordStart([Frame("saveRecord") EXCEPT !.record = a], serialize(heap, a))

ConcurrentSaveAtomic ==
  \E operations \in SeqsUpTo({[op |-> "add", data |-> a] : a \in 1..Len(ConcurrentHeap)}, MaxOperations) :
    /\ Len(calls) < MaxInterleaved
    /\ SaveAtomicStart([Frame("saveAtomic") EXCEPT !.operations = operations],
                       SerializeAll(heap, operations, 1, Return(<<>>, 0)))

InitConcurrent == InitWith(ConcurrentDocs, {ConcurrentHeap})

NextConcurrent ==
  \/ ConcurrentFindAll \/ ConcurrentFindRecord \/ ConcurrentFindRelated
  \/ ConcurrentSaveRecord \/ ConcurrentSaveAtomic
  \/ FindAllResume \/ FindRecordResume \/ FindRelatedResume
  \/ SaveRecordResume \/ SaveAtomicResume

SpecConcurrent == InitConcurrent /\ [][NextConcurrent]_vars

-----------------------------------------------------------------------------
(* C17 *)

\* a value, and a record, with its addresses moved by da and its generated
\* ids by du: what a call builds when da records and du generated ids were
\* there before it
Moved(v, da, du) ==
  [v EXCEPT !.refs = [i \in 1..Len(v.refs) |-> v.refs[i] + da],
            !.n = IF v.kind = "string" /\ v.s = "uuid" THEN v.n + du ELSE v.n]

MovedRecord(record, da, du) == [k \in DOMAIN record |-> Moved(record[k], da, du)]

\* call c settles in this step
Settling(c) == calls[c].result.st = "pending" /\ calls'[c].result.st # "pending"

\* what the continuation of f gives when f runs alone, on an instance no
\* other call was made on, with the document the transport gave
Alone(f, doc) ==
  CASE f.op = "findAll" -> findAll(<<>>, 0, doc)
    [] f.op = "findRecord" -> findRecord(<<>>, 0, f.id, doc)
    [] f.op = "saveRecord" -> saveRecord(<<>>, 0, doc)
    [] OTHER -> saveAtomic(<<>>, 0, doc)

\* the step settled call c as `alone` says: the same error, or the same
\* records, built after the ones there were
AsAlone(c, alone) ==
  IF alone.err # NoErr
  THEN calls'[c].result = Rejected(alone.err) /\ heap' = heap
  ELSE /\ calls'[c].result = Resolved([i \in 1..Len(alone.records) |-> alone.records[i] + Len(heap)])
       /\ Len(heap') = Len(heap) + Len(alone.heap)
       /\ \A i \in 1..Len(alone.heap) :
            heap'[Len(heap) + i] = MovedRecord(alone.heap[i], Len(heap), uuid)
       /\ \A a \in 1..Len(heap) : heap'[a] = heap[a]

\* findRelated alone, on a heap that holds its record only
RelatedAlone(f, doc) ==
  findRelated(<<heap[f.record]>>, 0, 1, f.name,
              relationshipDefinitions[TypeOf(heap[f.record])][f.name], doc)

RelatedAsAlone(c, alone) ==
  IF alone.err # NoErr
  THEN calls'[c].result = Rejected(alone.err) /\ heap' = heap
  ELSE /\ calls'[c].result = Resolved(<<>>)
       /\ Len(heap') = Len(heap) + Len(alone.heap) - 1
       /\ \A i \in 2..Len(alone.heap) :
            heap'[Len(heap) + i - 1] = MovedRecord(alone.heap[i], Len(heap) - 1, uuid)
       /\ \A a \in 1..Len(heap) :
            IF a # calls[c].record THEN heap'[a] = heap[a]
            ELSE heap'[a] = SetKey(heap[a], calls[c].name,
                                   Moved(alone.heap[1][calls[c].name], Len(heap) - 1, uuid))

C17_Settled(c) ==
  CASE calls'[c].response = "error" -> calls'[c].result = Rejected(TransportError) /\ heap' = heap
    [] calls'[c].response = "absent" -> calls'[c].result = ResolvedUndefined /\ heap' = heap
    [] calls[c].op = "findRelated" -> RelatedAsAlone(c, RelatedAlone(calls[c], calls'[c].document))
    [] OTHER -> AsAlone(c, Alone(calls[c], calls'[c].document))

\* C17: in every interleaving of calls of findAll, findRecord, findRelated,
\* saveRecord and saveAtomic on one instance, the step that settles a call
\* gives it the result it has when it runs alone with the same document -
\* the same error, or records with the same contents and the same
\* references among themselves, none of them to a record of another call -
\* and changes no other call and no record there was, but the one record a
\* findRelated assigns to; a step that starts a call changes no record and
\* no other call; and the two definition tables stay as useJsonApi built
\* them.
C17_Independent ==
  [][/\ modelDefinitions' = useJsonApiModels(ConfigModelDefinitions)
     /\ relationshipDefinitions' = useJsonApiRelationships(ConfigModelDefinitions)
     /\ \A c \in 1..Len(calls) : IF Settling(c) THEN C17_Settled(c) ELSE calls'[c] = calls[c]
     /\ Cardinality({c \in 1..Len(calls) : Settling(c)}) <= 1
     /\ Len(calls') > Len(calls) => heap' = heap]_vars

\* two calls in flight at once: the one made second settled first, both
\* resolved, and each built records
C17_Witness ==
  /\ Len(calls) = 2
  /\ calls[1].result.st = "resolved" /\ calls[1].result.records # <<>>
  /\ calls[2].result.st = "resolved" /\ calls[2].result.records # <<>>
  /\ calls[2].base < calls[1].base
  /\ calls[1].op # calls[2].op

-----------------------------------------------------------------------------
(* C19 *)

\* C19: the step in which the transport call of a findAll, findRecord,
\* findRelated, saveRecord or saveAtomic fails rejects the call with the
\* transport's failure, returns no records, makes no transport call and
\* changes no record - a findRelated leaves the relationship property as it
\* was; a call that has settled takes no further step, and transport calls
\* are made only by the step that starts a call, one at most.
C19_FailurePropagates ==
  [][/\ \A c \in 1..Len(calls) :
          /\ (Settling(c) /\ calls'[c].response = "error") =>
               /\ calls'[c].result = Rejected(TransportError)
               /\ calls'[c].result.records = <<>>
               /\ heap' = heap
               /\ sent' = sent
          /\ calls[c].result.st # "pending" => calls'[c] = calls[c]
     /\ sent' # sent => (Len(calls') = Len(calls) + 1 /\ Len(sent') = Len(sent) + 1)]_vars

\* findRelated(article, 'comments') whose fetch failed: rejected with the
\* failure, and the article's comments and author are what they were
C19_Witness ==
  \E c \in 1..Len(calls) :
    /\ calls[c].op = "findRelated" /\ calls[c].record = 2 /\ calls[c].name = "comments"
    /\ calls[c].response = "error"
    /\ calls[c].result = Rejected(TransportError)
    /\ heap[2] = Discussed(1, <<>>)
    /\ Len(sent) = Len(calls)

-----------------------------------------------------------------------------
(* C18 *)

\* the records call f is to write
C18_Written(f) ==
  IF f.op = "saveRecord" THEN {f.record}
  ELSE {f.operations[i].data : i \in {j \in 1..Len(f.operations) : f.operations[j].data # 0}}

\* C18 (as claimed): a saveRecord, and a saveAtomic with any operation, of a
\* record whose type is no configured model type fails with the
\* configuration error 'Model type <type> not defined' before any transport
\* call: post and postAtomic are not invoked.
C18_ConfigurationFirst ==
  \A c \in 1..Len(calls) :
    (/\ calls[c].op \in {"saveRecord", "saveAtomic"}
     /\ \E a \in C18_Written(calls[c]) : TypeOf(heap[a]) \notin modelDefinitions)
    => /\ calls[c].request = 0
       /\ \E a \in C18_Written(calls[c]) :
            calls[c].result = Rejected(Err("Model type not defined", TypeOf(heap[a])))

-----------------------------------------------------------------------------
(* C21 *)

\* the identifier names top-level resource k2 of the document, and no
\* included one
C21_TopLevelOnly(f, rid, k2) ==
  /\ Names(rid, TopLevel(f)[k2])
  /\ \A j \in 1..Len(Included(f)) : ~Names(rid, Included(f)[j])

\* C21 (as claimed): with or without an `included` member, the declared
\* relationships of every top-level resource are wired: a has-many linkage
\* with a data list gives a sequence on the record (an empty one for
\* `data: []`), and an identifier of the relationship's type that names
\* another top-level resource is resolved to that resource's record.
C21_EveryResource ==
  \A c \in 1..Len(calls) :
    (Decoded(c) /\ calls[c].result.st = "resolved") =>
      \A k \in 1..Len(calls[c].result.records) :
        \A q \in 1..Len(TopLevel(calls[c])[k].relationships) :
          LET parent == TopLevel(calls[c])[k]
              entry == parent.relationships[q]
              rel == RelOf(parent, entry)
              value == Get(heap[calls[c].result.records[k]], normalize(entry.name))
          IN Declared(parent, entry) =>
               /\ (rel.relationshipType = HasMany /\ entry.data = "many") =>
                    /\ value.kind = "array"
                    /\ \A p \in 1..Len(entry.rids), k2 \in 1..Len(calls[c].result.records) :
                         (entry.rids[p].type = rel.type /\ C21_TopLevelOnly(calls[c], entry.rids[p], k2))
                         => calls[c].result.records[k2] \in Targets(value)
               /\ (rel.relationshipType = BelongsTo /\ entry.data = "one") =>
                    \A k2 \in 1..Len(calls[c].result.records) :
                      (entry.rids[1].type = rel.type /\ C21_TopLevelOnly(calls[c], entry.rids[1], k2))
                      => value = Ref(calls[c].result.records[k2])

-----------------------------------------------------------------------------
(* C22 *)

\* top-level resource k is in `included` too
C22_AlsoIncluded(f, k) ==
  /\ TopLevel(f)[k].js = "object"
  /\ \E j \in 1..Len(Included(f)) :
       Included(f)[j].type = TopLevel(f)[k].type /\ Included(f)[j].id = TopLevel(f)[k].id

\* C22 (as claimed): when a resource is both top-level and included, every
\* relationship slot of the built graph that refers to its (type, id) holds
\* the record returned for it in the top-level records list.
C22_OneRecord ==
  \A c \in 1..Len(calls) :
    (Decoded(c) /\ calls[c].result.st = "resolved") =>
      \A k \in 1..Len(calls[c].result.records) :
        C22_AlsoIncluded(calls[c], k) =>
          \A a \in Segment(calls[c]) :
            \A key \in DOMAIN heap[a] :
              \A x \in Targets(heap[a][key]) :
                MapKey(heap[x]) = KeyOf(Str(TopLevel(calls[c])[k].type), TopLevel(calls[c])[k].id)
                => x = calls[c].result.records[k]

-----------------------------------------------------------------------------
(* C29 *)

\* the declared belongs-to properties of a record that are null
C29_NullKeys(record) ==
  {k \in DeclaredKeys(record) :
     /\ relationshipDefinitions[TypeOf(record)][k].relationshipType = BelongsTo
     /\ record[k] = Null}

\* C29 (as claimed): a saveRecord of a record whose declared belongs-to
\* property is null does not throw in serialize: the post call is made, and
\* the resource sent carries the relationship with data null.
C29_NullEncoded ==
  \A c \in 1..Len(calls) :
    calls[c].op = "saveRecord" =>
      \A key \in C29_NullKeys(heap[calls[c].record]) :
        /\ calls[c].request # 0
        /\ \E q \in EntriesOf(Body(calls[c])[1], key) :
             Body(calls[c])[1].relationships[q].data = "null"

-----------------------------------------------------------------------------
(* C30 *)

\* call c is a findRelated of a belongs-to relationship that was answered
\* with a document whose data is null
C30_NullFetched(c) ==
  /\ calls[c].op = "findRelated"
  /\ calls[c].response = "document"
  /\ calls[c].document.data = "null"
  /\ relationshipDefinitions[TypeOf(heap[calls[c].record])][calls[c].name].relationshipType = BelongsTo

\* C30 (as claimed): a findRelated of a declared belongs-to relationship
\* whose fetched document has `data: null` resolves, and the owning record
\* holds no related record under the relationship name.
C30_NullRelated ==
  \A c \in 1..Len(calls) :
    C30_NullFetched(c) =>
      /\ calls[c].result.st = "resolved"
      /\ Get(heap[calls[c].record], calls[c].name).kind # "record"

-----------------------------------------------------------------------------
(* C27 *)

\* the own properties of a record that are attributes: not reserved, not
\* undefined, not a declared relationship of the record's type
C27_Kept(record) ==
  {k \in DOMAIN record :
     /\ k \notin {"id", "lid", "type"}
     /\ record[k] # Undef
     /\ ~(/\ TypeOf(record) \in DOMAIN relationshipDefinitions
          /\ k \in DOMAIN relationshipDefinitions[TypeOf(record)])}

C27_Resource(record, resource) ==
  /\ DOMAIN resource.attributes = C27_Kept(record)
  /\ \A k \in C27_Kept(record) : resource.attributes[k] = record[k]
  /\ \A k \in DOMAIN record :
       (k \notin {"id", "lid", "type"} /\ record[k] = Undef) =>
         k \notin DOMAIN resource.attributes /\ EntriesOf(resource, k) = {}
  /\ {"id", "lid", "type"} \cap DOMAIN resource.attributes = {}

\* C27: the step in which saveRecord or saveAtomic encodes its records
\* leaves every record as it was, and each resource it sends has for
\* attributes exactly the record's own properties that are not id, lid or
\* type, not undefined and not a declared relationship, under the same key
\* with the same value; an undefined-valued property is neither an attribute
\* nor a relationship of the resource.
C27_Attributes ==
  [][\A c \in 1..Len(calls') :
       (c > Len(calls) /\ calls'[c].op \in {"saveRecord", "saveAtomic"}) =>
         /\ heap' = heap
         /\ calls'[c].request # 0 =>
              /\ Len(sent'[calls'[c].request].body) = Len(Encoded(calls'[c]))
              /\ \A i \in 1..Len(Encoded(calls'[c])) :
                   C27_Resource(heap[Encoded(calls'[c])[i]], sent'[calls'[c].request].body[i])]_vars

\* a record with an undefined property, an attribute and declared
\* relationships was encoded and sent
C27_Witness ==
  \E c \in 1..Len(calls) :
    /\ Sent(c)
    /\ \E i \in 1..Len(Body(calls[c])) :
         /\ \E k \in DOMAIN heap[Encoded(calls[c])[i]] : heap[Encoded(calls[c])[i]][k] = Undef
         /\ DeclaredKeys(heap[Encoded(calls[c])[i]]) # {}
         /\ DOMAIN Body(calls[c])[i].attributes = {"title"}

-----------------------------------------------------------------------------
(* C28 *)

\* the transport call of a batch: one postAtomic whose operations are the
\* caller's, in their order, each with its `op` and its record encoded
C28_Batch(f, request, h) ==
  /\ request.method = "postAtomic"
  /\ Len(request.ops) = Len(f.operations)
  /\ Len(request.body) = Len(f.operations)
  /\ \A i \in 1..Len(f.operations) :
       /\ request.ops[i] = f.operations[i].op
       /\ request.body[i] = serialize(h, f.operations[i].data).val

\* the records returned for the results: one for each, in their order
C28_Results(f, h) ==
  /\ Len(f.result.records) = Len(f.document.resources)
  /\ \A k \in 1..Len(f.document.resources) :
       /\ f.result.records[k] = f.base + k
       /\ TypeOf(h[f.result.records[k]]) = f.document.resources[k].type
       /\ f.document.resources[k].id # Undef =>
            Get(h[f.result.records[k]], "id") = f.document.resources[k].id

-----------------------------------------------------------------------------
(* Decoding documents whose linkage names other types, unbuilt resources,
   local identifiers and undeclared relationships *)

\* an article whose comments linkage names, in this order, comment 2, a
\* person, comment 1 and a comment that is in no document, and that has a
\* relationship `publisher` no model declares
Mixed ==
  WithRelationships(Resource("articles", Str("1"), Title),
                    <<LinkageOne("author", Rid("people", Str("1"))),
                      Linkage("comments", <<Rid("comments", Str("2")), Rid("people", Str("1")),
                                            Rid("comments", Str("1")), Rid("comments", Str("7"))>>),
                      LinkageOne("publisher", Rid("people", Str("1")))>>)

CommentD == Resource("comments", Str("2"), [body |-> Str("Second!")])

\* a comment whose author is named by a local identifier alone
LidOnly ==
  WithRelationships(Resource("comments", Str("3"), [body |-> Str("Third!")]),
                    <<LinkageOne("author", Lid("people", Str("local-1")))>>)

\* a resource with relationships whose type declares none
Tagged ==
  WithRelationships(Resource("tags", Str("1"), [label |-> Str("news")]),
                    <<Linkage("articles", <<Rid("articles", Str("1"))>>)>>)

WiringPool == {Mixed, PersonA, CommentC, CommentD, LidOnly, Tagged}

WiringDocs == DocumentsOver(WiringPool)

InitWiring == InitWith(WiringDocs, {<<>>})

NextWiring == FindAllCall \/ FindAllResume \/ FindRecordCall \/ FindRecordResume

SpecWiring == InitWiring /\ [][NextWiring]_vars

\* the resources of the document that carry relationships, top-level
\* (top = TRUE) or included, and the records built from them
Carriers(f, top) == IF top THEN TopLevel(f) ELSE Included(f)

BuiltFrom(f, top, j) == IF top THEN TopRecord(f, j) ELSE IncludedRecord(f, j)

\* included[j] is a top-level resource too
AlsoTopLevel(f, j) ==
  \E k \in 1..Len(TopLevel(f)) :
    /\ TopLevel(f)[k].js = "object"
    /\ TopLevel(f)[k].type = Included(f)[j].type
    /\ TopLevel(f)[k].id = Included(f)[j].id

-----------------------------------------------------------------------------
(* C24 *)

\* the record built for the resource an identifier names: that of the
\* included resource, else that of the top-level one; 0 when the document
\* has no such resource
C24_Target(f, rid) ==
  IF \E j \in 1..Len(Included(f)) : Names(rid, Included(f)[j])
  THEN IncludedRecord(f, CHOOSE j \in 1..Len(Included(f)) : Names(rid, Included(f)[j]))
  ELSE IF \E k \in 1..Len(TopLevel(f)) : Names(rid, TopLevel(f)[k])
  THEN TopRecord(f, CHOOSE k \in 1..Len(TopLevel(f)) : Names(rid, TopLevel(f)[k]))
  ELSE 0

\* in linkage order, the records for the identifiers of type `type` that
\* name a resource of the document
RECURSIVE C24_Expected(_, _, _)
C24_Expected(f, rids, type) ==
  IF rids = <<>> THEN <<>>
  ELSE IF Head(rids).type = type /\ C24_Target(f, Head(rids)) # 0
  THEN <<C24_Target(f, Head(rids))>> \o C24_Expected(f, Tail(rids), type)
  ELSE C24_Expected(f, Tail(rids), type)

C24_At(c, top) ==
  \A j \in 1..Len(Carriers(calls[c], top)) :
    \A q \in 1..Len(Carriers(calls[c], top)[j].relationships) :
      LET parent == Carriers(calls[c], top)[j]
          entry == parent.relationships[q]
          rel == RelOf(parent, entry)
          value == Get(heap[BuiltFrom(calls[c], top, j)], normalize(entry.name))
          expected == C24_Expected(calls[c], entry.rids, rel.type)
      IN (Declared(parent, entry) /\ (top \/ ~AlsoTopLevel(calls[c], j))) =>
           /\ (rel.relationshipType = HasMany /\ entry.data = "many") => value = Refs(expected)
           /\ (rel.relationshipType = BelongsTo /\ entry.data = "one") =>
                IF expected # <<>> THEN value = Ref(expected[1]) ELSE value.kind # "record"

-----------------------------------------------------------------------------
(* C25 *)

\* C25 (as claimed): decoding a document whose resources are all of
\* configured types never fails because of a linkage identifier that
\* resolves to no record, be it a (type, id) that names no resource or an
\* identifier with a lid and no id: the call resolves with a record for
\* every top-level resource.
C25_NeverFails ==
  \A c \in 1..Len(calls) :
    (Decoded(c) /\ WellFormed(calls[c]) /\ UnknownTypes(calls[c]) = {}) =>
      /\ calls[c].result.st = "resolved"
      /\ Len(calls[c].result.records) = Len(TopLevel(calls[c]))

-----------------------------------------------------------------------------
(* C26 *)

C26_At(c, top) ==
  \A j \in 1..Len(Carriers(calls[c], top)) :
    \A q \in 1..Len(Carriers(calls[c], top)[j].relationships) :
      ~Declared(Carriers(calls[c], top)[j], Carriers(calls[c], top)[j].relationships[q]) =>
        /\ SameDecode(c, DocumentWithout(calls[c].document, top, j, q))
        /\ calls[c].result.st = "resolved" =>
             normalize(Carriers(calls[c], top)[j].relationships[q].name)
               \notin DOMAIN heap[BuiltFrom(calls[c], top, j)]

\* C26: a relationship key of a wire resource whose normalized name the
\* resource's type does not declare, or whose type declares no
\* relationships at all, is ignored: the record built from the resource
\* does not own the key, and the decode has the outcome, the records and the
\* properties it has for the document without that entry.
C26_UnknownIgnored ==
  \A c \in 1..Len(calls) : Decoded(c) => \A top \in BOOLEAN : C26_At(c, top)

\* an article with an undeclared `publisher` and a tag with relationships
\* were decoded with the person included: the article has its author and no
\* publisher, the tag has its label and no articles
C26_Witness ==
  \E c \in 1..Len(calls) :
    /\ Decoded(c) /\ calls[c].result.st = "resolved"
    /\ TopLevel(calls[c]) = <<Mixed, Tagged>>
    /\ Included(calls[c]) = <<PersonA>>
    /\ "publisher" \notin DOMAIN heap[calls[c].result.records[1]]
    /\ Get(heap[calls[c].result.records[1]], "author") = Ref(IncludedRecord(calls[c], 1))
    /\ "articles" \notin DOMAIN heap[calls[c].result.records[2]]
    /\ Get(heap[calls[c].result.records[2]], "label") = Str("news")

-----------------------------------------------------------------------------
(* resourcesToRecords, statement by statement *)

\* the loops of resourcesToRecords in program order: the loop over
\* `included`, resources.map(resourceToRecord), the loop that fills
\* recordsMap, the two loops of `if (included)`, and `return records`
PassIncluded == "included"
PassRecords == "records"
PassIndex == "recordsMap"
PassWiring == "populateRelationships"
PassReturn == "return"
PassDone == "returned"

\* the loop after a loop
After(pass) ==
  CASE pass = PassIncluded -> PassRecords
    [] pass = PassRecords -> PassIndex
    [] pass = PassIndex -> PassWiring
    [] OTHER -> PassReturn

\* the resources pass 2 goes over: `resources`, then `included`
Flat(f) == f.document.resources \o Included(f)

\* the number of iterations of a loop
Work(f, pass) ==
  CASE pass = PassIncluded -> Len(Included(f))
    [] pass = PassRecords -> Len(f.document.resources)
    [] pass = PassIndex -> Len(f.document.resources)
    [] pass = PassWiring -> IF f.document.hasIncluded THEN Len(Flat(f)) ELSE 0
    [] OTHER -> 1

\* the statement that runs next when iteration n of loop `pass` is due: a
\* loop that is over, or empty, falls through to the loop after it
RECURSIVE Position(_, _, _)
Position(f, pass, n) ==
  IF pass \in {PassReturn, PassDone} \/ n <= Work(f, pass) THEN [pass |-> pass, next |-> n]
  ELSE Position(f, After(pass), 1)

\* the invocation after one more iteration
Proceed(f) ==
  [f EXCEPT !.steps = @ + 1,
            !.pass = Position(f, f.pass, f.next + 1).pass,
            !.next = Position(f, f.pass, f.next + 1).next]

\* a statement throws: the call is over, and the records it made are
\* unreachable
Abort(c, err) ==
  /\ calls' = [calls EXCEPT ![c].result = Rejected(err), ![c].pass = PassDone, ![c].steps = @ + 1]
  /\ heap' = SubSeq(heap, 1, calls[c].base)
  /\ uuid' = calls[c].ids
  /\ UNCHANGED <<modelDefinitions, relationshipDefinitions, kebabCase, sent, wire, http>>

Running(c, pass) ==
  /\ c \in 1..Len(calls)
  /\ calls[c].op = "resourcesToRecords"
  /\ calls[c].pass = pass

\* resourcesToRecords(doc.data, doc.included) is entered; the function has
\* no await, so a call runs to its end before another one is entered
ResourcesToRecordsCall ==
  /\ Len(calls) < MaxCalls
  /\ \A c \in 1..Len(calls) : calls[c].pass = PassDone
  /\ LET f == [Frame("resourcesToRecords")
                 EXCEPT !.document = wire, !.response = "document", !.base = Len(heap), !.ids = uuid]
         g == f @@ [pass |-> PassIncluded, next |-> 1, steps |-> 0, inc |-> <<>>, out |-> <<>>,
                    includedMap |-> EmptyObject, recordsMap |-> EmptyObject]
     IN calls' = Append(calls, [g EXCEPT !.pass = Position(g, PassIncluded, 1).pass])
  /\ UNCHANGED <<modelDefinitions, relationshipDefinitions, kebabCase, heap, uuid, sent, wire, http>>

\* setRecord(includedMap, resourceToRecord(resource)), for one resource
IncludedStep ==
  \E c \in 1..Len(calls) :
    /\ Running(c, PassIncluded)
    /\ LET made == resourceToRecord(calls[c].document.included[calls[c].next], Uuid(uuid + 1))
       IN IF made.err # NoErr THEN Abort(c, made.err)
          ELSE /\ heap' = Append(heap, made.val)
               /\ uuid' = uuid + made.used
               /\ calls' = [calls EXCEPT ![c] =
                    Proceed([@ EXCEPT !.inc = Append(@, Len(heap) + 1),
                                      !.includedMap = setRecord(@, made.val, Len(heap) + 1)])]
               /\ UNCHANGED <<modelDefinitions, relationshipDefinitions, kebabCase, sent, wire, http>>

\* a record-making step that wires the relationships of the new record at
\* once, from the records made so far
RecordsStepEager ==
  \E c \in 1..Len(calls) :
    /\ Running(c, PassRecords)
    /\ LET resource == calls[c].document.resources[calls[c].next]
           made == resourceToRecord(resource, Uuid(uuid + 1))
           map == IF made.err = NoErr THEN setRecord(calls[c].recordsMap, made.val, Len(heap) + 1)
                  ELSE calls[c].recordsMap
           wired == IF made.err = NoErr
                    THEN populateRelationships(Append(heap, made.val), resource, calls[c].includedMap, map)
                    ELSE Throw(made.err)
       IN IF made.err # NoErr THEN Abort(c, made.err)
          ELSE /\ heap' = IF wired.err = NoErr THEN wired.val ELSE Append(heap, made.val)
               /\ uuid' = uuid + made.used
               /\ calls' = [calls EXCEPT ![c] = Proceed([@ EXCEPT !.out = Append(@, Len(heap) + 1)])]
               /\ UNCHANGED <<modelDefinitions, relationshipDefinitions, kebabCase, sent, wire, http>>

\* one element of resources.map(resourceToRecord)
RecordsStep ==
  \E c \in 1..Len(calls) :
    /\ Running(c, PassRecords)
    /\ LET made == resourceToRecord(calls[c].document.resources[calls[c].next], Uuid(uuid + 1))
       IN IF made.err # NoErr THEN Abort(c, made.err)
          ELSE /\ heap' = Append(heap, made.val)
               /\ uuid' = uuid + made.used
               /\ calls' = [calls EXCEPT ![c] = Proceed([@ EXCEPT !.out = Append(@, Len(heap) + 1)])]
               /\ UNCHANGED <<modelDefinitions, relationshipDefinitions, kebabCase, sent, wire, http>>

\* setRecord(recordsMap, record), for one record of `records`
IndexStep ==
  \E c \in 1..Len(calls) :
    /\ Running(c, PassIndex)
    /\ calls' = [calls EXCEPT ![c] =
         Proceed([@ EXCEPT !.recordsMap = setRecord(@, heap[calls[c].out[calls[c].next]],
                                                     calls[c].out[calls[c].next])])]
    /\ UNCHANGED <<modelDefinitions, relationshipDefinitions, kebabCase, heap, uuid, sent, wire, http>>

\* populateRelationships(r), for one resource of `resources`, then of
\* `included`
WireStep ==
  \E c \in 1..Len(calls) :
    /\ Running(c, PassWiring)
    /\ LET wired == populateRelationships(heap, Flat(calls[c])[calls[c].next],
                                          calls[c].includedMap, calls[c].recordsMap)
       IN IF wired.err # NoErr THEN Abort(c, wired.err)
          ELSE /\ heap' = wired.val
               /\ calls' = [calls EXCEPT ![c] = Proceed(@)]
               /\ UNCHANGED <<modelDefinitions, relationshipDefinitions, kebabCase, uuid, sent, wire, http>>

\* return records
ReturnStep ==
  \E c \in 1..Len(calls) :
    /\ Running(c, PassReturn)
    /\ calls' = [calls EXCEPT ![c].result = Resolved(calls[c].out), ![c].pass = PassDone, ![c].steps = @ + 1]
    /\ UNCHANGED <<modelDefinitions, relationshipDefinitions, kebabCase, heap, uuid, sent, wire, http>>

\* documents whose data is a list: a person and a comment that refer to
\* each other, an article that refers to both, a comment whose author has
\* no id, a resource of an unknown type
PassesPool == {PersonA, CommentC, Article1, LidOnly, Unknown}

PassesDocs == {d \in DocumentsOver(PassesPool) : d.data = "many"}

InitPasses == InitWith(PassesDocs, {<<>>})

NextPasses ==
  ResourcesToRecordsCall \/ IncludedStep \/ RecordsStep \/ IndexStep \/ WireStep \/ ReturnStep

SpecPasses == InitPasses /\ [][NextPasses]_vars

-----------------------------------------------------------------------------
(* C23 *)

\* the declared relationship properties a record owns
C23_Relationships(record) ==
  IF TypeOf(record) \in DOMAIN relationshipDefinitions
  THEN DOMAIN record \cap DOMAIN relationshipDefinitions[TypeOf(record)]
  ELSE {}

\* a record for every included and every top-level resource exists and is
\* in its map
C23_AllBuilt(f, h) ==
  /\ Len(f.inc) = Len(Included(f))
  /\ Len(f.out) = Len(f.document.resources)
  /\ \A i \in 1..Len(f.inc) : MapKey(h[f.inc[i]]) \in DOMAIN f.includedMap
  /\ \A i \in 1..Len(f.out) : MapKey(h[f.out[i]]) \in DOMAIN f.recordsMap

\* the step gives a record a relationship property, or changes one
C23_Assigns(f, h, after) ==
  \E a \in (f.base + 1)..Len(after) :
    IF a <= Len(h) THEN after[a] # h[a] ELSE C23_Relationships(after[a]) # {}

\* the statements a call runs at most: one for each included resource, two
\* for each top-level one, one more for each resource in pass 2, and the
\* return
C23_Bound(f) == 2 * Len(Included(f)) + 3 * Len(f.document.resources) + 1

\* what the call has done is what resourcesToRecords does as one function
C23_AsOne(f, h) ==
  LET whole == resourcesToRecords(SubSeq(h, 1, f.base), f.ids, TRUE, f.document.resources,
                                  f.document.hasIncluded, f.document.included)
  IN /\ whole.heap = h
     /\ IF f.result.st = "rejected" THEN whole.err = f.result.err
        ELSE whole.err = NoErr /\ whole.records = f.result.records

\* C23: a statement of resourcesToRecords assigns a relationship property
\* only in pass 2, when a record has been made and put in its map for every
\* included and every top-level resource; pass 2 makes no record and each of
\* its statements is for the next resource of the flat list; every
\* statement is one of a count bounded by the number of resources, cyclic
\* linkage or not; and the call ends with the records and properties the
\* function gives.
C23_TwoPasses ==
  [][\A c \in 1..Len(calls) :
       (calls[c].op = "resourcesToRecords" /\ calls'[c] # calls[c]) =>
         /\ C23_Assigns(calls[c], heap, heap') =>
              calls[c].pass = PassWiring /\ C23_AllBuilt(calls[c], heap)
         /\ calls[c].pass = PassWiring =>
              /\ Len(heap') <= Len(heap)
              /\ calls'[c].pass = PassWiring => calls'[c].next = calls[c].next + 1
         /\ calls'[c].steps = calls[c].steps + 1
         /\ calls'[c].steps <= C23_Bound(calls[c])
         /\ calls'[c].pass = PassDone => C23_AsOne(calls'[c], heap')]_vars

\* a person and a comment that refer to each other were decoded, the
\* comment included: the call has returned, and the two records hold each
\* other
C23_Witness ==
  \E c \in 1..Len(calls) :
    /\ calls[c].op = "resourcesToRecords"
    /\ calls[c].pass = PassDone /\ calls[c].result.st = "resolved"
    /\ calls[c].document.resources = <<PersonA>>
    /\ Included(calls[c]) = <<CommentC>>
    /\ Get(heap[calls[c].out[1]], "comments") = Refs(calls[c].inc)
    /\ Get(heap[calls[c].inc[1]], "author") = Ref(calls[c].out[1])
    /\ calls[c].steps = 6

====
